---------------------------- MODULE Spec2Model ----------------------------
(***************************************************************************)
(* Budget_app: the budget computation and recurring-expense generation     *)
(* logic of src/src/utils/helpers.ts and the BudgetContext store that      *)
(* holds the collections those functions work on.                          *)
(*                                                                         *)
(* Representation.                                                         *)
(*  - A JavaScript string is a sequence of one-character strings, so that  *)
(*    startsWith, split, padStart and template literals are computed on    *)
(*    characters.                                                          *)
(*  - A JavaScript Date is the number of whole hours since                 *)
(*    1970-01-01T00:00Z.  Every instant of the model is a whole hour and   *)
(*    the device timezone is a fixed whole-hour offset (tzOffset, local =  *)
(*    UTC + tzOffset), so minutes, seconds and milliseconds are always 0   *)
(*    and the constant tail ":00:00.000Z" of toISOString is left out.      *)
(*  - An expense id is the record [base, months]: the string               *)
(*    base_months[1]_months[2]..., base an uuid (which has no "_").        *)
(***************************************************************************)
EXTENDS Integers, Sequences, FiniteSets, TLC

VARIABLES
    tzOffset,    \* device timezone: local time = UTC + tzOffset hours
    now,         \* the clock, a Date
    categories,  \* BudgetContext state: Category[]
    expenses,    \* BudgetContext state: Expense[]
    rollovers,   \* BudgetContext state: RolloverMap
    settings,    \* BudgetContext state: AppSettings
    triggers,    \* notifee: the trigger notifications that are scheduled
    calls,       \* the async calls started so far and where each of them is
    disk,        \* AsyncStorage: the persisted categories, expenses, rollovers,
                 \* settings
    pending,     \* AsyncStorage.setItem calls issued and not yet completed
    nextId,      \* number of uuids handed out so far
    ret          \* the last call: its name, arguments and returned value

vars ==
    <<tzOffset, now, categories, expenses, rollovers, settings, triggers, calls,
      disk, pending, nextId, ret>>

-----------------------------------------------------------------------------
(* Strings *)

Digits == <<"0", "1", "2", "3", "4", "5", "6", "7", "8", "9">>

DigitChar(d) == Digits[d + 1]

DigitValue(c) == (CHOOSE i \in 1..10 : Digits[i] = c) - 1

RECURSIVE NumStr(_)
(* String(n) of a non-negative integer *)
NumStr(n) == IF n < 10 THEN <<DigitChar(n)>>
             ELSE NumStr(n \div 10) \o <<DigitChar(n % 10)>>

(* s.padStart(2, '0') *)
PadStart2(s) == IF Len(s) >= 2 THEN s
                ELSE IF Len(s) = 1 THEN <<"0">> \o s ELSE <<"0", "0">>

(* s.padStart(4, '0'), the year of toISOString and of format 'yyyy' *)
RECURSIVE PadStart4(_)
PadStart4(s) == IF Len(s) >= 4 THEN s ELSE PadStart4(<<"0">> \o s)

(* s.startsWith(p) *)
StartsWith(s, p) == /\ Len(p) <= Len(s)
                    /\ \A i \in 1..Len(p) : s[i] = p[i]

RECURSIVE SplitFrom(_, _, _)
SplitFrom(s, i, cur) ==
    IF i > Len(s) THEN <<cur>>
    ELSE IF s[i] = "-" THEN <<cur>> \o SplitFrom(s, i + 1, <<>>)
    ELSE SplitFrom(s, i + 1, Append(cur, s[i]))

(* s.split('-') *)
SplitDash(s) == SplitFrom(s, 1, <<>>)

RECURSIVE DigitsValue(_, _)
DigitsValue(s, acc) == IF s = <<>> THEN acc
                       ELSE DigitsValue(Tail(s), 10 * acc + DigitValue(Head(s)))

(* Number(s) for a string of decimal digits (Number("") is 0) *)
ToNumber(s) == DigitsValue(s, 0)

(* !isNaN(Number(s)) for a string of digits and letters *)
IsNumeric(s) == \A i \in 1..Len(s) : \E d \in 1..10 : Digits[d] = s[i]

-----------------------------------------------------------------------------
(* Dates: hours since 1970-01-01T00:00Z *)

IsLeapYear(y) == (y % 4 = 0 /\ y % 100 # 0) \/ y % 400 = 0

(* date-fns getDaysInMonth for a date in month m of year y *)
getDaysInMonth(y, m) ==
    IF m = 2 THEN (IF IsLeapYear(y) THEN 29 ELSE 28)
    ELSE IF m \in {4, 6, 9, 11} THEN 30 ELSE 31

(* days from 1970-01-01 to day 1 of month m of year y (proleptic Gregorian) *)
DaysFromCivil(y, m, d) ==
    LET yy  == IF m <= 2 THEN y - 1 ELSE y
        era == yy \div 400
        yoe == yy - era * 400
        mp  == IF m > 2 THEN m - 3 ELSE m + 9
        doy == (153 * mp + 2) \div 5 + d - 1
        doe == yoe * 365 + yoe \div 4 - yoe \div 100 + doy
    IN  era * 146097 + doe - 719468

CivilFromDays(z) ==
    LET zz  == z + 719468
        era == zz \div 146097
        doe == zz - era * 146097
        yoe == (doe - doe \div 1460 + doe \div 36524 - doe \div 146096) \div 365
        doy == doe - (365 * yoe + yoe \div 4 - yoe \div 100)
        mp  == (5 * doy + 2) \div 153
        d   == doy - (153 * mp + 2) \div 5 + 1
        m   == IF mp < 10 THEN mp + 3 ELSE mp - 9
        y   == yoe + era * 400 + (IF m <= 2 THEN 1 ELSE 0)
    IN  [y |-> y, m |-> m, d |-> d]

(* the Date of LOCAL year, month, day and hour (setFullYear, setMonth,     *)
(* setDate): a month outside 1..12 and a day outside the month run over    *)
(* into the neighbouring year and month, as in JavaScript                  *)
MakeDate(y, m, d, h, tz) ==
    LET months == y * 12 + (m - 1)
    IN  (DaysFromCivil(months \div 12, (months % 12) + 1, 1) + d - 1) * 24 + h - tz

(* new Date(y, m - 1, d, h): as MakeDate, but the constructor takes a year *)
(* from 0 to 99 for 1900 + year                                            *)
NewDate(y, m, d, h, tz) ==
    MakeDate(IF y >= 0 /\ y <= 99 THEN 1900 + y ELSE y, m, d, h, tz)

(* getFullYear / getMonth + 1 / getDate / getHours: the LOCAL fields of t *)
LocalFields(t, tz) ==
    LET c == CivilFromDays((t + tz) \div 24)
    IN  [y |-> c.y, m |-> c.m, d |-> c.d, h |-> (t + tz) % 24]

(* the UTC fields of t *)
UTCFields(t) == LocalFields(t, 0)

(* Date.prototype.toISOString: UTC, "YYYY-MM-DDTHH" (tail ":00:00.000Z") *)
toISOString(t) ==
    LET f == UTCFields(t)
    IN  PadStart4(NumStr(f.y)) \o <<"-">> \o PadStart2(NumStr(f.m)) \o <<"-">>
        \o PadStart2(NumStr(f.d)) \o <<"T">> \o PadStart2(NumStr(f.h))

(* new Date(isoString): the instant of an ISO-8601 UTC timestamp *)
ParseISO(s) ==
    DaysFromCivil(ToNumber(SubSeq(s, 1, 4)), ToNumber(SubSeq(s, 6, 7)),
                  ToNumber(SubSeq(s, 9, 10))) * 24
    + ToNumber(SubSeq(s, 12, 13))

(* date-fns format(t, 'yyyy-MM'): LOCAL year and month *)
FormatYearMonth(t, tz) ==
    LET f == LocalFields(t, tz)
    IN  PadStart4(NumStr(f.y)) \o <<"-">> \o PadStart2(NumStr(f.m))


-----------------------------------------------------------------------------
(* Types (types.ts) *)

(* Expense: recurringDayOfMonth is optional, <<>> when absent, <<d>> when   *)
(* present                                                                  *)
Expense(id, categoryId, amount, note, date, isRecurring, day) ==
    [id |-> id, categoryId |-> categoryId, amount |-> amount, note |-> note,
     date |-> date, isRecurring |-> isRecurring, recurringDayOfMonth |-> day]

(* Category (icon and color are display only and left out) *)
Category(id, name, budget, isFixed, rollover) ==
    [id |-> id, name |-> name, budget |-> budget, isFixed |-> isFixed,
     rollover |-> rollover]

(* an id returned by uuidv4() *)
Uuid(n) == [base |-> n, months |-> <<>>]

Max(a, b) == IF a >= b THEN a ELSE b

Min(a, b) == IF a <= b THEN a ELSE b

-----------------------------------------------------------------------------
(* helpers.ts *)

(* currentMonth(): format(new Date(), 'yyyy-MM') *)
currentMonth(clock, tz) == FormatYearMonth(clock, tz)

(* date-fns addMonths(date, n) for a date on day 1 of its month, n = 1 or -1 *)
addMonths(t, n, tz) ==
    LET f  == LocalFields(t, tz)
        m0 == f.y * 12 + (f.m - 1) + n
    IN  MakeDate(m0 \div 12, (m0 % 12) + 1, f.d, f.h, tz)

prevMonth(monthKey, tz) ==
    LET parts == SplitDash(monthKey)
        y == ToNumber(parts[1])
        m == ToNumber(parts[2])
    IN  FormatYearMonth(addMonths(NewDate(y, m, 1, 0, tz), -1, tz), tz)

nextMonth(monthKey, tz) ==
    LET parts == SplitDash(monthKey)
        y == ToNumber(parts[1])
        m == ToNumber(parts[2])
    IN  FormatYearMonth(addMonths(NewDate(y, m, 1, 0, tz), 1, tz), tz)

(* variant: only the year of the key is compared *)
expensesForMonthOfYear(exps, month) ==
    LET inYear(e) == StartsWith(e.date, SubSeq(month, 1, 4))
    IN  SelectSeq(exps, inYear)

(* parseLocalDate: <<>> for null, <<date>> for a Date; a Date built from   *)
(* numbers is never NaN                                                    *)
parseLocalDate(dateStr, tz) ==
    LET parts == SplitDash(dateStr)
    IN  IF Len(parts) # 3 THEN <<>>
        ELSE IF ~(IsNumeric(parts[1]) /\ IsNumeric(parts[2]) /\ IsNumeric(parts[3]))
             THEN <<>>
             ELSE <<NewDate(ToNumber(parts[1]), ToNumber(parts[2]),
                            ToNumber(parts[3]), 0, tz)>>

expensesForMonth(exps, month) ==
    LET inMonth(e) == StartsWith(e.date, month)
    IN  SelectSeq(exps, inMonth)

RECURSIVE totalSpent(_)
totalSpent(exps) ==
    IF exps = <<>> THEN 0 ELSE Head(exps).amount + totalSpent(Tail(exps))

(* variant: acc[e.categoryId] = e.amount *)
RECURSIVE totalByCategoryLastAmount(_, _)
totalByCategoryLastAmount(acc, exps) ==
    IF exps = <<>> THEN acc
    ELSE LET e == Head(exps)
         IN  totalByCategoryLastAmount((e.categoryId :> e.amount) @@ acc, Tail(exps))

(* the reduce of totalByCategory from accumulator acc:                     *)
(* acc[e.categoryId] = (acc[e.categoryId] || 0) + e.amount                 *)
RECURSIVE totalByCategoryFrom(_, _)
totalByCategoryFrom(acc, exps) ==
    IF exps = <<>> THEN acc
    ELSE LET e == Head(exps)
             sofar == IF e.categoryId \in DOMAIN acc THEN acc[e.categoryId] ELSE 0
         IN  totalByCategoryFrom((e.categoryId :> sofar + e.amount) @@ acc, Tail(exps))

(* totalByCategory: the Record<string, number>, from {} *)
totalByCategory(exps) == totalByCategoryFrom([k \in {} |-> 0], exps)

(* new Date(e.date).getTime(), times sign: 1 for the comparator a - b,     *)
(* -1 for b - a                                                            *)
SortKey(e, sign) == sign * ParseISO(e.date)

(* Array.prototype.sort is stable: an element goes behind every element    *)
(* that does not compare greater                                           *)
RECURSIVE InsertSorted(_, _, _)
InsertSorted(sorted, e, sign) ==
    IF sorted = <<>> THEN <<e>>
    ELSE IF SortKey(Head(sorted), sign) <= SortKey(e, sign)
         THEN <<Head(sorted)>> \o InsertSorted(Tail(sorted), e, sign)
         ELSE <<e>> \o sorted

RECURSIVE SortFrom(_, _, _)
SortFrom(sorted, exps, sign) ==
    IF exps = <<>> THEN sorted
    ELSE SortFrom(InsertSorted(sorted, Head(exps), sign), Tail(exps), sign)

(* arr.sort((a, b) => sign * (time(a) - time(b))) *)
SortByDate(exps, sign) == SortFrom(<<>>, exps, sign)

(* variant: expenses.sort(...) on the array passed in *)
csvSortInPlace(exps) ==
    [sorted |-> SortByDate(exps, 1), input |-> SortByDate(exps, 1)]

(* [...expenses].sort(...) of buildCSV: the copy is sorted, the array      *)
(* passed in is as it was                                                  *)
csvSort(exps) == [sorted |-> SortByDate(exps, 1), input |-> exps]

(* expensesForMonth(expenses, monthKey).sort(b - a) of the history view:   *)
(* filter returns a new array, which is sorted                             *)
historySort(exps, monthKey) ==
    [sorted |-> SortByDate(expensesForMonth(exps, monthKey), -1), input |-> exps]

(* catMap[c.id] = c for each category in turn: the last one of an id stays *)
catMap(cats) ==
    [id \in {cats[i].id : i \in 1..Len(cats)} |->
        cats[CHOOSE i \in 1..Len(cats) :
                 /\ cats[i].id = id
                 /\ \A j \in (i + 1)..Len(cats) : cats[j].id # id]]

(* format(date, 'yyyy-MM-dd'): the local date *)
FormatDate(t, tz) ==
    LET f == LocalFields(t, tz)
    IN  PadStart4(NumStr(f.y)) \o <<"-">> \o PadStart2(NumStr(f.m))
            \o <<"-">> \o PadStart2(NumStr(f.d))

(* amount.toFixed(2) of a whole amount *)
toFixed2(n) == NumStr(n) \o <<".", "0", "0">>

(* s.replace(/"/g, '""') *)
RECURSIVE ReplaceQuotes(_)
ReplaceQuotes(str) ==
    IF str = <<>> THEN <<>>
    ELSE (IF Head(str) = "\"" THEN <<"\"", "\"">> ELSE <<Head(str)>>)
             \o ReplaceQuotes(Tail(str))

(* variant: the note between quotes as it is *)
csvNoteAsIs(note) == <<"\"">> \o note \o <<"\"">>

(* `"${(e.note || '').replace(/"/g, '""')}"` *)
csvNote(note) == <<"\"">> \o ReplaceQuotes(note) \o <<"\"">>

(* parts.join(sep) *)
RECURSIVE Join(_, _)
Join(parts, sep) ==
    IF parts = <<>> THEN <<>>
    ELSE IF Len(parts) = 1 THEN parts[1]
         ELSE parts[1] \o sep \o Join(Tail(parts), sep)

CsvHeader == <<"D", "a", "t", "e", ",", "C", "a", "t", "e", "g", "o", "r", "y", ",", "A", "m", "o", "u", "n", "t", ",", "C", "u", "r", "r", "e", "n", "c", "y", ",", "N", "o", "t", "e", ",", "R", "e", "c", "u", "r", "r", "i", "n", "g">>

Unknown == <<"U", "n", "k", "n", "o", "w", "n">>

(* the row of one expense *)
csvRow(e, cats, currency, tz) ==
    LET map == catMap(cats)
    IN  Join(<< FormatDate(ParseISO(e.date), tz),
                IF e.categoryId \in DOMAIN map THEN map[e.categoryId].name ELSE Unknown,
                toFixed2(e.amount),
                currency,
                csvNote(e.note),
                IF e.isRecurring THEN <<"y", "e", "s">> ELSE <<"n", "o">> >>,
             <<",">>)

(* variant: the rows in input order *)
buildCSVInputOrder(exps, cats, currency, tz) ==
    Join(<<CsvHeader>> \o [k \in 1..Len(exps) |-> csvRow(exps[k], cats, currency, tz)],
         <<"\n">>)

buildCSV(exps, cats, currency, tz) ==
    LET sorted == csvSort(exps).sorted
    IN  Join(<<CsvHeader>> \o
                 [k \in 1..Len(sorted) |-> csvRow(sorted[k], cats, currency, tz)],
             <<"\n">>)

(* variant: the id is built from the month key alone *)
RecurringIdMonthOnly(id, monthKey) == [base |-> 0, months |-> <<monthKey>>]

(* `${tmpl.id}_${monthKey}` *)
RecurringId(id, monthKey) == [id EXCEPT !.months = Append(@, monthKey)]

(* variant: the day is not clamped to the length of the month *)
RecurringDayUnclamped(tmpl, daysInMonth) == tmpl.recurringDayOfMonth[1]

(* const day = Math.min(tmpl.recurringDayOfMonth!, daysInMonth) *)
RecurringDay(tmpl, daysInMonth) == Min(tmpl.recurringDayOfMonth[1], daysInMonth)

(* monthExpenses.some(e => e.isRecurring && same categoryId, note, amount) *)
alreadyExists(monthExpenses, tmpl) ==
    \E i \in 1..Len(monthExpenses) :
        /\ monthExpenses[i].isRecurring
        /\ monthExpenses[i].categoryId = tmpl.categoryId
        /\ monthExpenses[i].note = tmpl.note
        /\ monthExpenses[i].amount = tmpl.amount

RECURSIVE RecurringLoop(_, _, _, _, _, _)
(* the for loop over templates; monthExpenses is computed once, before it *)
RecurringLoop(templates, monthExpenses, monthKey, y, m, tz) ==
    IF templates = <<>> THEN <<>>
    ELSE LET tmpl == Head(templates)
             day  == RecurringDay(tmpl, getDaysInMonth(y, m))
             rest == RecurringLoop(Tail(templates), monthExpenses, monthKey, y, m, tz)
         IN  IF ~alreadyExists(monthExpenses, tmpl)
             THEN <<[tmpl EXCEPT !.id = RecurringId(tmpl.id, monthKey),
                                 !.date = toISOString(NewDate(y, m, day, 0, tz))]>>
                  \o rest
             ELSE rest

generateRecurringForMonth(allExpenses, monthKey, tz) ==
    LET parts == SplitDash(monthKey)
        y == ToNumber(parts[1])
        m == ToNumber(parts[2])
        monthExpenses == expensesForMonth(allExpenses, monthKey)
        isTemplate(e) == e.isRecurring /\ e.recurringDayOfMonth # <<>>
        templates == SelectSeq(allExpenses, isTemplate)
    IN  RecurringLoop(templates, monthExpenses, monthKey, y, m, tz)

(* variant: a truthiness test, which takes a stored 0 for absent *)
HasStoredRolloverTruthy(rolls, prevMonthKey, catId) ==
    /\ prevMonthKey \in DOMAIN rolls
    /\ catId \in DOMAIN rolls[prevMonthKey]
    /\ rolls[prevMonthKey][catId] # 0

(* rollovers[prevMonthKey]?.[cat.id] != null *)
HasStoredRollover(rolls, prevMonthKey, catId) ==
    /\ prevMonthKey \in DOMAIN rolls
    /\ catId \in DOMAIN rolls[prevMonthKey]

(* variant: the result is not floored at 0 *)
computeRolloverNoFloor(cat, prevMonthKey, allExpenses, rolls) ==
    IF ~cat.rollover \/ cat.budget = 0 THEN 0
    ELSE IF HasStoredRollover(rolls, prevMonthKey, cat.id)
         THEN rolls[prevMonthKey][cat.id]
         ELSE LET prevExpenses == expensesForMonth(allExpenses, prevMonthKey)
                  ofCat(e) == e.categoryId = cat.id
                  spent == totalSpent(SelectSeq(prevExpenses, ofCat))
              IN  cat.budget - spent

(* variant: the expenses of the month are not filtered by category *)
computeRolloverAllCategories(cat, prevMonthKey, allExpenses, rolls) ==
    IF ~cat.rollover \/ cat.budget = 0 THEN 0
    ELSE IF HasStoredRollover(rolls, prevMonthKey, cat.id)
         THEN rolls[prevMonthKey][cat.id]
         ELSE LET prevExpenses == expensesForMonth(allExpenses, prevMonthKey)
                  spent == totalSpent(prevExpenses)
              IN  Max(cat.budget - spent, 0)

(* variant: the stored value is looked up before the rollover flag and the *)
(* budget are tested                                                       *)
computeRolloverStoredFirst(cat, prevMonthKey, allExpenses, rolls) ==
    IF HasStoredRollover(rolls, prevMonthKey, cat.id)
    THEN rolls[prevMonthKey][cat.id]
    ELSE IF ~cat.rollover \/ cat.budget = 0 THEN 0
         ELSE LET prevExpenses == expensesForMonth(allExpenses, prevMonthKey)
                  ofCat(e) == e.categoryId = cat.id
                  spent == totalSpent(SelectSeq(prevExpenses, ofCat))
              IN  Max(cat.budget - spent, 0)

(* variant: what the category spent in all months is taken off the budget *)
computeRolloverAllMonths(cat, prevMonthKey, allExpenses, rolls) ==
    IF ~cat.rollover \/ cat.budget = 0 THEN 0
    ELSE IF HasStoredRollover(rolls, prevMonthKey, cat.id)
         THEN rolls[prevMonthKey][cat.id]
         ELSE LET ofCat(e) == e.categoryId = cat.id
                  spent == totalSpent(SelectSeq(allExpenses, ofCat))
              IN  Max(cat.budget - spent, 0)

computeRollover(cat, prevMonthKey, allExpenses, rolls) ==
    IF ~cat.rollover \/ cat.budget = 0 THEN 0
    ELSE IF HasStoredRollover(rolls, prevMonthKey, cat.id)
         THEN rolls[prevMonthKey][cat.id]
         ELSE LET prevExpenses == expensesForMonth(allExpenses, prevMonthKey)
                  ofCat(e) == e.categoryId = cat.id
                  spent == totalSpent(SelectSeq(prevExpenses, ofCat))
              IN  Max(cat.budget - spent, 0)

-----------------------------------------------------------------------------
(* BudgetContext *)

NoCategory == Category("", <<>>, 0, FALSE, FALSE)

(* categories.find(c => c.id === catId), NoCategory for undefined *)
FindCategory(cats, catId) ==
    IF \E i \in 1..Len(cats) : cats[i].id = catId
    THEN cats[CHOOSE i \in 1..Len(cats) :
                 /\ cats[i].id = catId
                 /\ \A j \in 1..(i - 1) : cats[j].id # catId]
    ELSE NoCategory

effectiveBudget(catId, cats, exps, rolls, clock, tz) ==
    LET cat == FindCategory(cats, catId)
    IN  IF cat = NoCategory \/ cat.budget = 0 THEN 0
        ELSE cat.budget
             + computeRollover(cat, prevMonth(currentMonth(clock, tz), tz), exps, rolls)


-----------------------------------------------------------------------------
(* Bounds and inputs *)

MaxExpenses == 2

(* rollover saves in flight at a time *)
MaxRolloverWrites == 1

(* the valid month key "YYYY-MM" of month m of year y *)
MonthKey(y, m) == PadStart4(NumStr(y)) \o <<"-">> \o PadStart2(NumStr(m))

(* device timezones: UTC-5, UTC, UTC+1 (the README's CET) *)
TimezoneOffsets == {-5, 0, 1}

(* the clock: 2025-01-31T23:00Z, which is January in UTC and February in CET *)
StartClock == MakeDate(2025, 1, 31, 23, 0)

(* local times an expense is entered at: <<year, month, day, hour>>;       *)
(* the last evening of a month and the first midnight of the next          *)
EntryTimes == {<<2025, 1, 31, 22>>, <<2025, 2, 1, 0>>}

(* months the recurring generator is run for: a leap February (before the  *)
(* entries), a February of 28 days, a month of 30 days                     *)
TargetMonths == {MonthKey(2024, 2), MonthKey(2025, 2), MonthKey(2025, 4)}

(* months of the month views *)
ViewMonths == {MonthKey(2025, 1), MonthKey(2025, 2)}

Amounts == {20, 40}

Notes == {<<"r">>}

(* recurringDayOfMonth of the entries: absent, 1, 31 *)
RecurringDays == {<<>>, <<1>>, <<31>>}

(* the RolloverMap {} *)
EmptyRollovers == [k \in {} |-> 0]

(* the settings of a first start: useState of BudgetProvider, and          *)
(* getSettings with no key set                                             *)
DefaultSettings ==
    [currency |-> <<"€">>, incomeAmount |-> 0, notificationsEnabled |-> FALSE,
     reminderHour |-> 20, reminderMinute |-> 0]

(* AsyncStorage with no key set: getCategories and getExpenses give [],    *)
(* getRollovers gives {}, getSettings gives the defaults                   *)
EmptyDisk ==
    [categories |-> <<>>, expenses |-> <<>>, rollovers |-> EmptyRollovers,
     settings |-> DefaultSettings]

NoCall == [op |-> "none", month |-> <<>>, cat |-> NoCategory, out |-> <<>>]

Call(op, month, cat, out) == [op |-> op, month |-> month, cat |-> cat, out |-> out]

-----------------------------------------------------------------------------
(* Operations *)

(* storage.saveExpenses(exps): AsyncStorage.setItem is called, the write   *)
(* completes later                                                         *)
saveExpenses(exps) == [key |-> "expenses", value |-> exps]

(* storage.saveCategories(cats) *)
saveCategories(cats) == [key |-> "categories", value |-> cats]

(* storage.saveRollovers(map) *)
saveRollovers(map) == [key |-> "rollovers", value |-> map]

(* BudgetContext.addExpense: setExpenses(prev => [...prev, exp]) with      *)
(* storage.saveExpenses(updated)                                           *)
addExpense(exp) ==
    /\ nextId < MaxExpenses
    /\ expenses' = Append(expenses, exp)
    /\ pending' = Append(pending, saveExpenses(expenses'))
    /\ nextId' = Max(nextId, exp.id.base)
    /\ ret' = Call("addExpense", <<>>, NoCategory, <<>>)
    /\ UNCHANGED <<tzOffset, now, settings, triggers, calls, categories, rollovers, disk>>

(* the recurring generator tops up the collection: every entry that        *)
(* generateRecurringForMonth returns is added                              *)
TopUpRecurring(monthKey) ==
    LET newEntries == generateRecurringForMonth(expenses, monthKey, tzOffset)
    IN  /\ Len(expenses) <= MaxExpenses
        /\ expenses' = expenses \o newEntries
        /\ pending' = pending \o [k \in 1..Len(newEntries) |->
                           saveExpenses(expenses \o SubSeq(newEntries, 1, k))]
        /\ ret' = Call("generateRecurringForMonth", monthKey, NoCategory, newEntries)
        /\ UNCHANGED <<tzOffset, now, settings, triggers, calls, categories, rollovers, disk, nextId>>

(* a month view (Dashboard, History, Charts): expensesForMonth(expenses, m) *)
ViewMonth(monthKey) ==
    /\ ret' = Call("expensesForMonth", monthKey, NoCategory,
                   expensesForMonth(expenses, monthKey))
    /\ UNCHANGED <<tzOffset, now, settings, triggers, calls, categories, expenses, rollovers, disk, pending, nextId>>

(* an entry as AddExpenseScreen.handleSubmit builds it: a fresh uuid and   *)
(* date.toISOString() of the local time picked                             *)
NewExpense(categoryId, amount, note, local, day) ==
    Expense(Uuid(nextId + 1), categoryId, amount, note,
            toISOString(NewDate(local[1], local[2], local[3], local[4], tzOffset)),
            day # <<>>, day)

Init ==
    /\ tzOffset \in TimezoneOffsets
    /\ now = StartClock
    /\ categories = <<>>
    /\ expenses = <<>>
    /\ rollovers = EmptyRollovers
    /\ disk = EmptyDisk
    /\ pending = <<>>
    /\ settings = DefaultSettings
    /\ triggers = {}
    /\ calls = <<>>
    /\ nextId = 0
    /\ ret = NoCall

Next ==
    \/ \E amount \in Amounts, note \in Notes, local \in EntryTimes,
          day \in RecurringDays :
          addExpense(NewExpense("catA", amount, note, local, day))
    \/ \E monthKey \in TargetMonths : TopUpRecurring(monthKey)
    \/ \E monthKey \in ViewMonths : ViewMonth(monthKey)

Spec == Init /\ [][Next]_vars


-----------------------------------------------------------------------------
(* The rollover calculator: categories and the rollover map as loaded,     *)
(* computeRollover and effectiveBudget applied to them                     *)

(* a rollover category with a budget, one without rollover, one without   *)
(* limit                                                                   *)
SeedCategories ==
    << Category("catA", <<"F", "o", "o", "d">>, 100, FALSE, TRUE),
       Category("catC", <<"R", "e", "n", "t">>, 100, TRUE, FALSE),
       Category("catD", <<"M", "i", "s", "c">>, 0, FALSE, TRUE) >>

CategoryIds == {SeedCategories[i].id : i \in 1..Len(SeedCategories)}

(* contents of the rollover map: stored credits of 7, 0, 5 and -120 *)
RolloverMaps ==
    { (MonthKey(2025, 1) :> ("catA" :> 7 @@ "catC" :> 7 @@ "catD" :> 7)),
      (MonthKey(2025, 1) :> ("catA" :> 0 @@ "catC" :> 0)
          @@ MonthKey(2024, 12) :> ("catC" :> 5)),
      (MonthKey(2025, 1) :> ("catA" :> -120)) }

(* previous-month keys computeRollover is called with *)
RolloverMonths == {MonthKey(2025, 1), MonthKey(2024, 12)}

(* <<categoryId, amount, local time>> of the expenses of the history:      *)
(* amounts under, and two of them together over, the budget of 100, in two *)
(* months and two categories                                               *)
HistoryEntries ==
    { <<"catA", 60, <<2025, 1, 15, 12>>>>,
      <<"catA", 70, <<2024, 12, 15, 12>>>>,
      <<"catC", 70, <<2025, 1, 15, 12>>>> }

(* BudgetContext.updateRollovers: setRollovers(map), then                  *)
(* storage.saveRollovers(map)                                              *)
updateRollovers(map) ==
    /\ Cardinality({i \in 1..Len(pending) : pending[i].key = "rollovers"})
          < MaxRolloverWrites
    /\ rollovers' = map
    /\ pending' = Append(pending, saveRollovers(map))
    /\ ret' = Call("updateRollovers", <<>>, NoCategory, <<>>)
    /\ UNCHANGED <<tzOffset, now, settings, triggers, calls, categories, expenses, disk, nextId>>

(* a call computeRollover(cat, prevMonthKey, expenses, rollovers) *)
ComputeRollover(cat, prevMonthKey) ==
    /\ ret' = Call("computeRollover", prevMonthKey, cat,
                   computeRollover(cat, prevMonthKey, expenses, rollovers))
    /\ UNCHANGED <<tzOffset, now, settings, triggers, calls, categories, expenses, rollovers, disk, pending, nextId>>

(* a call effectiveBudget(catId) of the context (DashboardScreen) *)
EffectiveBudget(catId) ==
    /\ ret' = Call("effectiveBudget", prevMonth(currentMonth(now, tzOffset), tzOffset),
                   FindCategory(categories, catId),
                   effectiveBudget(catId, categories, expenses, rollovers,
                                   now, tzOffset))
    /\ UNCHANGED <<tzOffset, now, settings, triggers, calls, categories, expenses, rollovers, disk, pending, nextId>>

InitRollover ==
    /\ tzOffset \in {0, 1}
    /\ now = StartClock
    /\ categories = SeedCategories
    /\ expenses = <<>>
    /\ rollovers = EmptyRollovers
    /\ disk = [EmptyDisk EXCEPT !.categories = SeedCategories]
    /\ pending = <<>>
    /\ settings = DefaultSettings
    /\ triggers = {}
    /\ calls = <<>>
    /\ nextId = 0
    /\ ret = NoCall

NextRollover ==
    \/ \E entry \in HistoryEntries, note \in Notes :
          addExpense(NewExpense(entry[1], entry[2], note, entry[3], <<>>))
    \/ \E map \in RolloverMaps : updateRollovers(map)
    \/ \E i \in 1..Len(categories), prevMonthKey \in RolloverMonths :
          ComputeRollover(categories[i], prevMonthKey)
    \/ \E catId \in CategoryIds \cup {"gone"} : EffectiveBudget(catId)

SpecRollover == InitRollover /\ [][NextRollover]_vars


-----------------------------------------------------------------------------
(* Notions the properties are stated in *)

(* year and month of a valid month key "YYYY-MM" *)
KeyYear(monthKey) == ToNumber(SubSeq(monthKey, 1, 4))

KeyMonth(monthKey) == ToNumber(SubSeq(monthKey, 6, 7))

(* the number of days of a calendar month: from its first day to the first *)
(* day of the month after it                                               *)
CalendarDays(y, m) ==
    DaysFromCivil(IF m = 12 THEN y + 1 ELSE y, IF m = 12 THEN 1 ELSE m + 1, 1)
    - DaysFromCivil(y, m, 1)

(* the local calendar date of an expense on this device *)
LocalDate(e) == LocalFields(ParseISO(e.date), tzOffset)

(* the expense's local calendar date lies in the month of the key *)
LocallyInMonth(e, monthKey) ==
    /\ LocalDate(e).y = KeyYear(monthKey)
    /\ LocalDate(e).m = KeyMonth(monthKey)

(* the month written in the expense's date string is the month of the key *)
DatedInMonth(e, monthKey) ==
    /\ UTCFields(ParseISO(e.date)).y = KeyYear(monthKey)
    /\ UTCFields(ParseISO(e.date)).m = KeyMonth(monthKey)

RECURSIVE SumOver(_, _)
(* the sum of the amounts of the expenses at the indexes I *)
SumOver(exps, I) ==
    IF I = {} THEN 0
    ELSE LET i == CHOOSE j \in I : TRUE
         IN  exps[i].amount + SumOver(exps, I \ {i})

(* what a category spent in a month *)
SpentIn(exps, catId, monthKey) ==
    SumOver(exps, {i \in 1..Len(exps) :
                      exps[i].categoryId = catId /\ DatedInMonth(exps[i], monthKey)})

SameValues(a, b) ==
    /\ a.categoryId = b.categoryId
    /\ a.note = b.note
    /\ a.amount = b.amount

IsTemplate(e) == e.isRecurring /\ e.recurringDayOfMonth # <<>>

DistinctIds(exps) ==
    \A i, j \in 1..Len(exps) : i # j => exps[i].id # exps[j].id

Generated == ret.op = "generateRecurringForMonth"

(* the collection the generator was called with: the entries it returned   *)
(* were added at the end                                                   *)
GeneratedFrom == SubSeq(expenses, 1, Len(expenses) - Len(ret.out))

-----------------------------------------------------------------------------
(* The recurring generator (Spec) *)

(* C1: after the entries generateRecurringForMonth(E, m) returned have been *)
(* added to E, generateRecurringForMonth for the same month returns         *)
(* nothing, in every device timezone.                                       *)
C1_SecondRunEmpty ==
    Generated => generateRecurringForMonth(expenses, ret.month, tzOffset) = <<>>

(* C2: two distinct templates with equal categoryId, note and amount and no *)
(* recurring entry with these values in the target month: one call returns  *)
(* exactly one entry with these values.                                     *)
C2_OneInstanceForEqualTemplates ==
    Generated =>
        \A i, j \in 1..Len(GeneratedFrom) :
            LET a == GeneratedFrom[i]
                b == GeneratedFrom[j]
            IN  ( /\ i # j /\ a.id # b.id
                  /\ IsTemplate(a) /\ IsTemplate(b) /\ SameValues(a, b)
                  /\ \A k \in 1..Len(GeneratedFrom) :
                        ~ ( /\ GeneratedFrom[k].isRecurring
                            /\ SameValues(GeneratedFrom[k], a)
                            /\ ( \/ DatedInMonth(GeneratedFrom[k], ret.month)
                                 \/ LocallyInMonth(GeneratedFrom[k], ret.month) ) ) )
                => Cardinality({k \in 1..Len(ret.out) : SameValues(ret.out[k], a)}) = 1

(* C3: every id returned by one call is "<template.id>_<monthKey>" for a    *)
(* template of the collection, and when the ids of the collection are       *)
(* pairwise distinct, so are the returned ids.                              *)
C3_ReturnedIdsDistinct ==
    Generated =>
        /\ \A k \in 1..Len(ret.out) :
              \E i \in 1..Len(GeneratedFrom) :
                  /\ IsTemplate(GeneratedFrom[i])
                  /\ ret.out[k].id.base = GeneratedFrom[i].id.base
                  /\ ret.out[k].id.months = GeneratedFrom[i].id.months \o <<ret.month>>
        /\ DistinctIds(GeneratedFrom) => DistinctIds(ret.out)

C3_Witness ==
    /\ Generated
    /\ Len(ret.out) >= 2
    /\ DistinctIds(GeneratedFrom)

(* C4: the instance of a template with recurringDayOfMonth d >= 1 is dated, *)
(* as a local calendar date, in the target month, on day                    *)
(* min(d, days of the target month).                                        *)
C4_DayClampedToMonth ==
    Generated =>
        \A k \in 1..Len(ret.out) :
            \E i \in 1..Len(GeneratedFrom) :
                LET tmpl == GeneratedFrom[i]
                    y == KeyYear(ret.month)
                    m == KeyMonth(ret.month)
                IN  /\ IsTemplate(tmpl)
                    /\ ret.out[k].id.base = tmpl.id.base
                    /\ ret.out[k].id.months = tmpl.id.months \o <<ret.month>>
                    /\ tmpl.recurringDayOfMonth[1] >= 1 =>
                          /\ LocalDate(ret.out[k]).y = y
                          /\ LocalDate(ret.out[k]).m = m
                          /\ LocalDate(ret.out[k]).d =
                                Min(tmpl.recurringDayOfMonth[1], CalendarDays(y, m))

(* day 31 gave 29 February 2024 *)
C4_Witness ==
    /\ Generated
    /\ ret.month = MonthKey(2024, 2)
    /\ \E k \in 1..Len(ret.out) :
          /\ ret.out[k].recurringDayOfMonth = <<31>>
          /\ LocalDate(ret.out[k]).m = 2
          /\ LocalDate(ret.out[k]).d = 29

(* C10: in every device timezone, expensesForMonth(E, m) contains an        *)
(* expense stored from a local timestamp exactly when its local calendar    *)
(* date lies in month m.                                                    *)
C10_BucketByLocalDate ==
    ret.op = "expensesForMonth" =>
        \A i \in 1..Len(expenses) :
            (\E k \in 1..Len(ret.out) : ret.out[k] = expenses[i])
            <=> LocallyInMonth(expenses[i], ret.month)


-----------------------------------------------------------------------------
(* The rollover calculator (SpecRollover) *)

ComputedRollover == ret.op = "computeRollover"

(* the rollover map stores a value for the call's month and category *)
Stored ==
    /\ ret.month \in DOMAIN rollovers
    /\ ret.cat.id \in DOMAIN rollovers[ret.month]

(* the calendar month before the current local month, as a month key *)
PreviousLocalMonth ==
    LET f == LocalFields(now, tzOffset)
    IN  IF f.m = 1 THEN MonthKey(f.y - 1, 12) ELSE MonthKey(f.y, f.m - 1)

C6_NeverNegative ==
    (ComputedRollover /\ ~Stored) => ret.out >= 0

(* an overspent category *)
C6_Witness ==
    /\ ComputedRollover /\ ~Stored
    /\ ret.cat.rollover /\ ret.cat.budget # 0
    /\ SpentIn(expenses, ret.cat.id, ret.month) > ret.cat.budget
    /\ ret.out = 0

(* C7: rollover enabled, budget not 0, nothing stored: computeRollover      *)
(* returns max(budget - spent, 0), spent the sum of the amounts of the      *)
(* expenses of that category dated in previousMonthKey; the effective       *)
(* budget of the month after is the budget plus that (100, 60: 40 and 140). *)
C7_BudgetMinusSpent ==
    /\ (ComputedRollover /\ ret.cat.rollover /\ ret.cat.budget # 0 /\ ~Stored)
          => ret.out = Max(ret.cat.budget
                           - SpentIn(expenses, ret.cat.id, ret.month), 0)
    /\ ( /\ ret.op = "effectiveBudget"
         /\ ret.cat.rollover /\ ret.cat.budget # 0
         /\ ~HasStoredRollover(rollovers, PreviousLocalMonth, ret.cat.id) )
          => ret.out = ret.cat.budget
                       + Max(ret.cat.budget
                             - SpentIn(expenses, ret.cat.id, PreviousLocalMonth), 0)

(* budget 100, 60 spent last month among other expenses: effective budget 140 *)
C7_Witness ==
    /\ ret.op = "effectiveBudget"
    /\ ret.cat.rollover /\ ret.cat.budget = 100
    /\ ~HasStoredRollover(rollovers, PreviousLocalMonth, ret.cat.id)
    /\ SpentIn(expenses, ret.cat.id, PreviousLocalMonth) = 60
    /\ Len(expenses) >= 2
    /\ ret.out = 140

(* C8: for a category with budget >= 0 the effective budget is              *)
(* budget + max(rolloverCredit, 0), so never negative and never below the   *)
(* budget, whatever the rollover map stores.                                *)
C8_EffectiveBudgetFloored ==
    (ret.op = "effectiveBudget" /\ ret.cat # NoCategory /\ ret.cat.budget >= 0)
        => /\ ret.out >= 0
           /\ ret.out >= ret.cat.budget
           /\ ret.out = ret.cat.budget
                        + Max(computeRollover(ret.cat, PreviousLocalMonth,
                                              expenses, rollovers), 0)

(* C9: rollover disabled or budget 0: computeRollover returns 0, whatever   *)
(* the expenses and the rollover map are.                                   *)
C9_ZeroWhenDisabledOrNoLimit ==
    (ComputedRollover /\ (~ret.cat.rollover \/ ret.cat.budget = 0))
        => ret.out = 0

(* a category without rollover that has expenses and a stored 7 *)
C9_Witness ==
    /\ ComputedRollover /\ ~ret.cat.rollover
    /\ Stored /\ rollovers[ret.month][ret.cat.id] = 7
    /\ SpentIn(expenses, ret.cat.id, ret.month) > 0
    /\ ret.out = 0


-----------------------------------------------------------------------------
(* The month views (Spec) *)

(* the string s begins with the characters of p *)
HasPrefix(s, p) == Len(s) >= Len(p) /\ SubSeq(s, 1, Len(p)) = p

(* the k-th smallest element of a set of indexes *)
NthOf(I, k) == CHOOSE i \in I : Cardinality({j \in I : j < i}) = k - 1

(* C11: expensesForMonth(E, m) is the subsequence of E of the expenses      *)
(* whose date string has prefix m, in input order; the returned and the     *)
(* not returned expenses together are as many as E has.                     *)
C11_SubsequenceWithPrefix ==
    ret.op = "expensesForMonth" =>
        LET inMonth == {i \in 1..Len(expenses) : HasPrefix(expenses[i].date, ret.month)}
            others  == {i \in 1..Len(expenses) : ~HasPrefix(expenses[i].date, ret.month)}
        IN  /\ Len(ret.out) = Cardinality(inMonth)
            /\ \A k \in 1..Len(ret.out) : ret.out[k] = expenses[NthOf(inMonth, k)]
            /\ Len(ret.out) + Cardinality(others) = Len(expenses)

(* a view that returned two expenses and left one out *)
C11_Witness ==
    /\ ret.op = "expensesForMonth"
    /\ Len(ret.out) >= 2
    /\ Len(ret.out) < Len(expenses)


-----------------------------------------------------------------------------
(* The date utilities: a month navigator (History, Charts) and             *)
(* parseLocalDate applied to strings                                       *)

(* months a navigator may step away from the months it starts at *)
MaxMonthSteps == 14

(* months a navigator is at: one of today, one of the years around 100     *)
(* and one of the years around 9999                                        *)
ScreenMonths == {MonthKey(2025, 1), MonthKey(100, 7), MonthKey(9999, 6)}

(* strings handed to parseLocalDate *)
DateStrings ==
    { <<"2", "0", "2", "5", "-", "0", "2", "-", "2", "8">>,
      <<"2", "0", "2", "4", "-", "0", "2", "-", "2", "9">>,
      <<"2", "0", "2", "5", "-", "1", "3", "-", "0", "1">>,
      <<"2", "0", "2", "5", "-", "0", "2", "-", "3", "0">>,
      <<"2", "0", "2", "5", "-", "0", "2">>,
      <<"2", "0", "2", "5", "-", "0", "2", "-", "2", "8", "-", "0", "1">>,
      <<"2", "0", "2", "5", "-", "a", "b", "-", "0", "1">>,
      <<"2", "0", "2", "5", "-", "-", "0", "1">>,
      <<>> }

(* the months from year 0 of the month key's month *)
MonthIndex(monthKey) ==
    ToNumber(SplitDash(monthKey)[1]) * 12 + ToNumber(SplitDash(monthKey)[2])

InNavigatorRange(monthKey) ==
    \E start \in ScreenMonths :
        /\ MonthIndex(monthKey) - MonthIndex(start) <= MaxMonthSteps
        /\ MonthIndex(start) - MonthIndex(monthKey) <= MaxMonthSteps

(* the navigator shows the month key that was returned last *)
AtMonth == ret.op \in {"currentMonth", "prevMonth", "nextMonth"}

(* setMonthKey(prevMonth(monthKey)) *)
GoPrevMonth ==
    /\ AtMonth /\ InNavigatorRange(ret.out)
    /\ ret' = Call("prevMonth", ret.out, NoCategory, prevMonth(ret.out, tzOffset))
    /\ UNCHANGED <<tzOffset, now, settings, triggers, calls, categories, expenses, rollovers, disk, pending, nextId>>

(* setMonthKey(nextMonth(monthKey)) *)
GoNextMonth ==
    /\ AtMonth /\ InNavigatorRange(ret.out)
    /\ ret' = Call("nextMonth", ret.out, NoCategory, nextMonth(ret.out, tzOffset))
    /\ UNCHANGED <<tzOffset, now, settings, triggers, calls, categories, expenses, rollovers, disk, pending, nextId>>

(* a call parseLocalDate(dateStr) *)
ParseLocalDate(dateStr) ==
    /\ ret' = Call("parseLocalDate", dateStr, NoCategory,
                   parseLocalDate(dateStr, tzOffset))
    /\ UNCHANGED <<tzOffset, now, settings, triggers, calls, categories, expenses, rollovers, disk, pending, nextId>>

InitDates ==
    /\ tzOffset \in TimezoneOffsets
    /\ now = StartClock
    /\ categories = <<>>
    /\ expenses = <<>>
    /\ rollovers = EmptyRollovers
    /\ disk = EmptyDisk
    /\ pending = <<>>
    /\ settings = DefaultSettings
    /\ triggers = {}
    /\ calls = <<>>
    /\ nextId = 0
    /\ \E monthKey \in ScreenMonths :
          ret = Call("currentMonth", <<>>, NoCategory, monthKey)

NextDates ==
    \/ GoPrevMonth
    \/ GoNextMonth
    \/ \E dateStr \in DateStrings : ParseLocalDate(dateStr)

SpecDates == InitDates /\ [][NextDates]_vars

(* a month key "YYYY-MM": 7 characters, digits around a dash, month 01..12 *)
IsMonthKey(k) ==
    /\ Len(k) = 7
    /\ k[5] = "-"
    /\ IsNumeric(SubSeq(k, 1, 4)) /\ IsNumeric(SubSeq(k, 6, 7))
    /\ KeyMonth(k) \in 1..12

(* C13: prevMonth(nextMonth(m)) = m and nextMonth(prevMonth(m)) = m for    *)
(* every valid month key m.                                                *)
C13_RoundTrip ==
    /\ (ret.op = "nextMonth" /\ IsMonthKey(ret.month))
          => prevMonth(ret.out, tzOffset) = ret.month
    /\ (ret.op = "prevMonth" /\ IsMonthKey(ret.month))
          => nextMonth(ret.out, tzOffset) = ret.month

(* the calendar month after, and before, month m of year y, as <<y, m>> *)
MonthAfter(y, m) == IF m = 12 THEN <<y + 1, 1>> ELSE <<y, m + 1>>

MonthBefore(y, m) == IF m = 1 THEN <<y - 1, 12>> ELSE <<y, m - 1>>

(* the string is the month key of month ym[2] of year ym[1] *)
IsKeyOf(k, ym) == IsMonthKey(k) /\ KeyYear(k) = ym[1] /\ KeyMonth(k) = ym[2]

(* C14: for every valid month key nextMonth returns the key of the month   *)
(* one later and prevMonth of the month one earlier, each in the           *)
(* 7-character form YYYY-MM.                                               *)
C14_OneMonth ==
    /\ (ret.op = "nextMonth" /\ IsMonthKey(ret.month))
          => IsKeyOf(ret.out, MonthAfter(KeyYear(ret.month), KeyMonth(ret.month)))
    /\ (ret.op = "prevMonth" /\ IsMonthKey(ret.month))
          => IsKeyOf(ret.out, MonthBefore(KeyYear(ret.month), KeyMonth(ret.month)))

(* the string is a calendar date "YYYY-MM-DD": three components of digits,  *)
(* none empty, a month 1..12 and a day of that month                        *)
IsCalendarDate(str) ==
    LET parts == SplitDash(str)
    IN  /\ Len(parts) = 3
        /\ \A i \in 1..3 : parts[i] # <<>> /\ IsNumeric(parts[i])
        /\ ToNumber(parts[2]) \in 1..12
        /\ ToNumber(parts[3]) \in 1..CalendarDays(ToNumber(parts[1]), ToNumber(parts[2]))

(* C15: parseLocalDate returns null for every string that is not a valid    *)
(* "YYYY-MM-DD" calendar date, and a date only for valid calendar dates.    *)
C15_NullUnlessCalendarDate ==
    ret.op = "parseLocalDate" => (ret.out # <<>> <=> IsCalendarDate(ret.month))


-----------------------------------------------------------------------------
(* The screens that read the collection: Dashboard and Charts totals, the  *)
(* History list, the CSV export of Settings                                *)

(* <<categoryId, note, recurringDayOfMonth>> of the entries: a recurring   *)
(* one of a category of the list with a note that has a comma and a double *)
(* quote, and one of a category that is gone with no note                  *)
ViewEntries ==
    { <<"catA", <<"a", ",", "b", "\"", "c">>, <<1>>>>,
      <<"gone", <<>>, <<>>>> }

(* amounts of the entries *)
ViewAmounts == {20}

(* settings.currency *)
Currencies == {<<"E", "U", "R">>}

(* Dashboard and Charts: totalByCategory and totalSpent of the month view *)
MonthTotals(monthKey) ==
    LET monthExpenses == expensesForMonth(expenses, monthKey)
    IN  /\ ret' = Call("totalByCategory", monthKey, NoCategory,
                       [spentByCategory |-> totalByCategory(monthExpenses),
                        total |-> totalSpent(monthExpenses)])
        /\ UNCHANGED <<tzOffset, now, settings, triggers, calls, categories, expenses, rollovers, disk, pending, nextId>>

(* HistoryScreen.monthExpenses: the month view, latest first *)
HistoryView(monthKey) ==
    /\ ret' = Call("monthExpenses", monthKey, NoCategory,
                   historySort(expenses, monthKey).sorted)
    /\ expenses' = historySort(expenses, monthKey).input
    /\ UNCHANGED <<tzOffset, now, settings, triggers, calls, categories, rollovers, disk, pending, nextId>>

(* SettingsScreen.handleExportCSV: nothing to export without expenses *)
ExportCSV(currency) ==
    /\ expenses # <<>>
    /\ ret' = Call("buildCSV", <<>>, NoCategory,
                   buildCSV(expenses, categories, currency, tzOffset))
    /\ expenses' = csvSort(expenses).input
    /\ UNCHANGED <<tzOffset, now, settings, triggers, calls, categories, rollovers, disk, pending, nextId>>

InitViews ==
    /\ tzOffset \in {0, 1}
    /\ now = StartClock
    /\ categories = SeedCategories
    /\ expenses = <<>>
    /\ rollovers = EmptyRollovers
    /\ disk = [EmptyDisk EXCEPT !.categories = SeedCategories]
    /\ pending = <<>>
    /\ settings = DefaultSettings
    /\ triggers = {}
    /\ calls = <<>>
    /\ nextId = 0
    /\ ret = NoCall

NextViews ==
    \/ \E entry \in ViewEntries, amount \in ViewAmounts, local \in EntryTimes :
          addExpense(NewExpense(entry[1], amount, entry[2], local, entry[3]))
    \/ TopUpRecurring(MonthKey(2025, 2))
    \/ \E monthKey \in ViewMonths : ViewMonth(monthKey)
    \/ \E monthKey \in ViewMonths : MonthTotals(monthKey)
    \/ \E monthKey \in ViewMonths : HistoryView(monthKey)
    \/ \E currency \in Currencies : ExportCSV(currency)
    \/ \E i \in 1..Len(categories) : ComputeRollover(categories[i], MonthKey(2025, 1))

SpecViews == InitViews /\ [][NextViews]_vars

(* the sum of the values of a Record<string, number> *)
RECURSIVE SumValues(_)
SumValues(rec) ==
    IF DOMAIN rec = {} THEN 0
    ELSE LET k == CHOOSE k \in DOMAIN rec : TRUE
         IN  rec[k] + SumValues([j \in DOMAIN rec \ {k} |-> rec[j]])

(* C12: totalSpent of a month view equals the sum of the values of         *)
(* totalByCategory of that month view, which is the sum of the amounts of  *)
(* the expenses whose date begins with the key; totalSpent([]) is 0.       *)
C12_TotalIsSumOfCategories ==
    /\ totalSpent(<<>>) = 0
    /\ ret.op = "totalByCategory" =>
          /\ ret.out.total = SumValues(ret.out.spentByCategory)
          /\ ret.out.total =
                SumOver(expenses, {i \in 1..Len(expenses) :
                                      HasPrefix(expenses[i].date, ret.month)})
          /\ \A c \in DOMAIN ret.out.spentByCategory :
                ret.out.spentByCategory[c] =
                   SumOver(expenses, {i \in 1..Len(expenses) :
                                         /\ HasPrefix(expenses[i].date, ret.month)
                                         /\ expenses[i].categoryId = c})

(* a month with two categories, one of them with two expenses *)
C12_Witness ==
    /\ ret.op = "totalByCategory"
    /\ Cardinality(DOMAIN ret.out.spentByCategory) = 2
    /\ \E c \in DOMAIN ret.out.spentByCategory :
          Cardinality({i \in 1..Len(expenses) :
                          /\ HasPrefix(expenses[i].date, ret.month)
                          /\ expenses[i].categoryId = c}) >= 2

(* the pieces of a text between the occurrences of a character *)
RECURSIVE SplitOn(_, _)
SplitOn(text, sep) ==
    IF \A i \in 1..Len(text) : text[i] # sep THEN <<text>>
    ELSE LET at == CHOOSE i \in 1..Len(text) :
                       text[i] = sep /\ \A j \in 1..(i - 1) : text[j] # sep
         IN  <<SubSeq(text, 1, at - 1)>> \o SplitOn(SubSeq(text, at + 1, Len(text)), sep)

(* the position of expense i of the collection when the collection is put  *)
(* in ascending order of timestamp, equal timestamps in input order        *)
RankOf(exps, i) ==
    1 + Cardinality({j \in 1..Len(exps) :
                        \/ ParseISO(exps[j].date) < ParseISO(exps[i].date)
                        \/ ParseISO(exps[j].date) = ParseISO(exps[i].date) /\ j < i})

AtRank(exps, k) == CHOOSE i \in 1..Len(exps) : RankOf(exps, i) = k

(* the lines of the exported text *)
CsvLines == SplitOn(ret.out, "\n")

(* C16: the first line of buildCSV is the header                           *)
(* Date,Category,Amount,Currency,Note,Recurring; then comes exactly one    *)
(* row per expense, in ascending order of timestamp whatever the input     *)
(* order, expenses of equal timestamp in input order.                      *)
C16_HeaderThenRowsByTime ==
    ret.op = "buildCSV" =>
        /\ CsvLines[1] = <<"D", "a", "t", "e", ",", "C", "a", "t", "e", "g", "o", "r", "y", ",", "A", "m", "o", "u", "n", "t", ",", "C", "u", "r", "r", "e", "n", "c", "y", ",", "N", "o", "t", "e", ",", "R", "e", "c", "u", "r", "r", "i", "n", "g">>
        /\ Len(CsvLines) = 1 + Len(expenses)
        /\ \A k \in 1..Len(expenses) : \E currency \in Currencies :
              CsvLines[k + 1] =
                  csvRow(expenses[AtRank(expenses, k)], categories, currency, tzOffset)
        /\ \A k \in 1..(Len(expenses) - 1) :
              ParseISO(expenses[AtRank(expenses, k)].date)
                  <= ParseISO(expenses[AtRank(expenses, k + 1)].date)

(* an export of a collection whose later expense comes first, and their    *)
(* rows differ                                                             *)
C16_Witness ==
    /\ ret.op = "buildCSV"
    /\ \E i, j \in 1..Len(expenses) :
          /\ i < j
          /\ ParseISO(expenses[i].date) > ParseISO(expenses[j].date)
          /\ CsvLines[RankOf(expenses, i) + 1] # CsvLines[RankOf(expenses, j) + 1]

(* a text with each double quote written twice *)
RECURSIVE DoubledQuotes(_)
DoubledQuotes(text) ==
    IF text = <<>> THEN <<>>
    ELSE LET last == text[Len(text)]
         IN  DoubledQuotes(SubSeq(text, 1, Len(text) - 1))
                 \o (IF last = "\"" THEN <<last, last>> ELSE <<last>>)

EndsWith(text, tail) ==
    Len(text) >= Len(tail) /\ SubSeq(text, Len(text) - Len(tail) + 1, Len(text)) = tail

(* C17: in every row the note stands between double quotes with every      *)
(* double quote of it doubled, "" for an empty note and "a,b""c" for the    *)
(* note a,b"c; the category column is the literal Unknown when no category  *)
(* has the expense's categoryId.                                            *)
C17_NoteQuotedCategoryUnknown ==
    ret.op = "buildCSV" =>
        \A k \in 1..Len(expenses) :
            LET e   == expenses[AtRank(expenses, k)]
                row == CsvLines[k + 1]
                recurring == IF e.isRecurring THEN <<"y", "e", "s">> ELSE <<"n", "o">>
            IN  /\ EndsWith(row, <<",", "\"">> \o DoubledQuotes(e.note)
                                     \o <<"\"", ",">> \o recurring)
                /\ e.note = <<>> => EndsWith(row, <<",", "\"", "\"", ",">> \o recurring)
                /\ e.note = <<"a", ",", "b", "\"", "c">>
                      => EndsWith(row, <<",">> \o <<"\"", "a", ",", "b", "\"", "\"", "c", "\"">> \o <<",">> \o recurring)
                /\ (\A i \in 1..Len(categories) : categories[i].id # e.categoryId)
                      => SplitOn(row, ",")[2] = <<"U", "n", "k", "n", "o", "w", "n">>
                /\ \A i \in 1..Len(categories) :
                      categories[i].id = e.categoryId
                          => SplitOn(row, ",")[2] = categories[i].name

(* an export with a note that has a double quote, with an empty note and   *)
(* with a category that is gone                                            *)
C17_Witness ==
    /\ ret.op = "buildCSV"
    /\ \E i \in 1..Len(expenses) : \E c \in 1..Len(expenses[i].note) :
          expenses[i].note[c] = "\""
    /\ \E i \in 1..Len(expenses) :
          /\ expenses[i].note = <<>>
          /\ \A c \in 1..Len(categories) : categories[c].id # expenses[i].categoryId

(* the calls of the core functions: the month view, the totals            *)
(* (totalByCategory and totalSpent), computeRollover, the recurring         *)
(* generator, the export and the history view                               *)
CoreCalls ==
    {"expensesForMonth", "totalByCategory", "computeRollover",
     "generateRecurringForMonth", "buildCSV", "monthExpenses"}

(* C19: a call of a core function leaves the expense collection, the        *)
(* category list and the rollover map it was given with the same elements   *)
(* in the same order; the entries the recurring generator returns are added *)
(* behind the expenses that were there, which stay as they were.            *)
C19_InputsUnchanged ==
    [][ret'.op \in CoreCalls =>
          /\ categories' = categories
          /\ rollovers' = rollovers
          /\ IF ret'.op = "generateRecurringForMonth"
             THEN /\ Len(expenses') = Len(expenses) + Len(ret'.out)
                  /\ SubSeq(expenses', 1, Len(expenses)) = expenses
             ELSE expenses' = expenses]_vars

(* after an export and after a history view whose sorted copy is in another *)
(* order than the collection                                                *)
C19_Witness ==
    \/ /\ ret.op = "buildCSV"
       /\ \E k \in 1..Len(expenses) : AtRank(expenses, k) # k
    \/ /\ ret.op = "monthExpenses"
       /\ Len(ret.out) >= 2
       /\ ret.out # expensesForMonth(expenses, ret.month)

-----------------------------------------------------------------------------
(* The store: categories and expenses of the context and their copies in   *)
(* AsyncStorage                                                            *)

(* writes of the category list that may be waiting at a time *)
MaxCategoryWrites == 2

(* the category SettingsScreen.handleAddCategory adds *)
AddedCategory == Category("catE", <<"C", "a", "s", "h">>, 50, FALSE, FALSE)

CategoryWritesWaiting ==
    Cardinality({i \in 1..Len(pending) : pending[i].key = "categories"})

(* BudgetContext.addCategory: [...prev, cat], saved *)
addCategory(cat) ==
    /\ CategoryWritesWaiting < MaxCategoryWrites
    /\ \A i \in 1..Len(categories) : categories[i].id # cat.id
    /\ categories' = Append(categories, cat)
    /\ pending' = Append(pending, saveCategories(categories'))
    /\ ret' = Call("addCategory", <<>>, cat, cat.id)
    /\ UNCHANGED <<tzOffset, now, settings, triggers, calls, expenses, rollovers, disk, nextId>>

(* variant: the expenses of the category go with it *)
deleteCategoryWithExpenses(id) ==
    LET kept(c) == c.id # id
        keptExpense(e) == e.categoryId # id
    IN  /\ CategoryWritesWaiting < MaxCategoryWrites
        /\ categories' = SelectSeq(categories, kept)
        /\ expenses' = SelectSeq(expenses, keptExpense)
        /\ pending' = pending \o <<saveCategories(categories'), saveExpenses(expenses')>>
        /\ ret' = Call("deleteCategory", <<>>, FindCategory(categories, id), id)
        /\ UNCHANGED <<tzOffset, now, settings, triggers, calls, rollovers, disk, nextId>>

(* BudgetContext.deleteCategory: prev.filter(c => c.id !== id), saved *)
deleteCategory(id) ==
    LET kept(c) == c.id # id
    IN  /\ CategoryWritesWaiting < MaxCategoryWrites
        /\ categories' = SelectSeq(categories, kept)
        /\ pending' = Append(pending, saveCategories(categories'))
        /\ ret' = Call("deleteCategory", <<>>, FindCategory(categories, id), id)
        /\ UNCHANGED <<tzOffset, now, settings, triggers, calls, expenses, rollovers, disk, nextId>>

(* a write of AsyncStorage.setItem completes; the writes are not awaited   *)
(* and complete in any order                                               *)
CompleteSave(k) ==
    /\ k \in 1..Len(pending)
    /\ disk' = [disk EXCEPT ![pending[k].key] = pending[k].value]
    /\ pending' = SubSeq(pending, 1, k - 1) \o SubSeq(pending, k + 1, Len(pending))
    /\ ret' = Call("setItem", <<>>, NoCategory, pending[k].key)
    /\ UNCHANGED <<tzOffset, now, settings, triggers, calls, categories, expenses, rollovers, nextId>>

InitStore ==
    /\ tzOffset = 0
    /\ now = StartClock
    /\ categories = SeedCategories
    /\ expenses = <<>>
    /\ rollovers = EmptyRollovers
    /\ disk = [EmptyDisk EXCEPT !.categories = SeedCategories]
    /\ pending = <<>>
    /\ settings = DefaultSettings
    /\ triggers = {}
    /\ calls = <<>>
    /\ nextId = 0
    /\ ret = NoCall

NextStore ==
    \/ \E categoryId \in {"catA", "catC"}, amount \in ViewAmounts, note \in Notes :
          addExpense(NewExpense(categoryId, amount, note, <<2025, 1, 15, 12>>, <<>>))
    \/ addCategory(AddedCategory)
    \/ \E id \in {"catA", "catC", "gone"} : deleteCategory(id)
    \/ \E k \in 1..Len(pending) : CompleteSave(k)

SpecStore == InitStore /\ [][NextStore]_vars

(* the writes of the expense collection that are waiting *)
ExpenseWrites(writes) ==
    LET ofExpenses(w) == w.key = "expenses"
    IN  SelectSeq(writes, ofExpenses)

(* C18: deleteCategory(id) removes the category with that id and nothing   *)
(* else: the expenses in memory, in storage and in the writes on their way *)
(* to storage stay as they were, categoryId included, and the other        *)
(* categories stay, with their fields, in their order.                     *)
C18_DeleteCategoryOnly ==
    [][ret'.op = "deleteCategory" =>
          LET others == {i \in 1..Len(categories) : categories[i].id # ret'.out}
          IN  /\ expenses' = expenses
              /\ disk'.expenses = disk.expenses
              /\ ExpenseWrites(pending') = ExpenseWrites(pending)
              /\ Len(categories') = Cardinality(others)
              /\ \A k \in 1..Len(categories') :
                    categories'[k] = categories[NthOf(others, k)]
              /\ pending'[Len(pending')] = [key |-> "categories", value |-> categories']]_vars

(* a category that has expenses was deleted and two others stay *)
C18_Witness ==
    /\ ret.op = "deleteCategory"
    /\ ret.cat.id = ret.out
    /\ \E i \in 1..Len(expenses) : expenses[i].categoryId = ret.out
    /\ \A i \in 1..Len(categories) : categories[i].id # ret.out
    /\ Len(categories) >= 2

-----------------------------------------------------------------------------
(* computeRollover on two inputs (SpecRollover)                            *)

(* expenses that other collections may hold: of another category, and of   *)
(* a month before the months of the calls                                  *)
OtherExpenses ==
    { Expense(Uuid(8), "catC", 70, <<"r">>, toISOString(MakeDate(2025, 1, 15, 12, 0)),
              FALSE, <<>>),
      Expense(Uuid(9), "catA", 70, <<"r">>, toISOString(MakeDate(2024, 11, 15, 12, 0)),
              FALSE, <<>>) }

(* the collections that hold some of the current expenses, in their order, *)
(* and maybe one of the other expenses                                     *)
OtherCollections ==
    LET some(I) == [k \in 1..Cardinality(I) |-> expenses[NthOf(I, k)]]
        parts == {some(I) : I \in SUBSET (1..Len(expenses))}
    IN  parts \cup {Append(part, other) : part \in parts, other \in OtherExpenses}

(* the expenses of a category inside a month, in their order *)
OfCategoryInMonth(exps, catId, monthKey) ==
    LET counts(e) == e.categoryId = catId /\ HasPrefix(e.date, monthKey)
    IN  SelectSeq(exps, counts)

(* two maps agree on the entry (monthKey, catId) *)
SameEntry(a, b, monthKey, catId) ==
    LET hasA == monthKey \in DOMAIN a /\ catId \in DOMAIN a[monthKey]
        hasB == monthKey \in DOMAIN b /\ catId \in DOMAIN b[monthKey]
    IN  /\ hasA <=> hasB
        /\ hasA => a[monthKey][catId] = b[monthKey][catId]

(* C20: computeRollover returns the same value for every collection that   *)
(* has the same expenses of the category inside previousMonthKey and every *)
(* map with the same entry (previousMonthKey, category.id): other months,  *)
(* other categories and other entries do not count.                        *)
C20_OneMonthBack ==
    ret.op = "computeRollover" =>
        \A exps \in OtherCollections, map \in RolloverMaps \cup {EmptyRollovers} :
            ( /\ OfCategoryInMonth(exps, ret.cat.id, ret.month)
                    = OfCategoryInMonth(expenses, ret.cat.id, ret.month)
              /\ SameEntry(map, rollovers, ret.month, ret.cat.id) )
            => computeRollover(ret.cat, ret.month, exps, map) = ret.out

(* a rollover computed from the expenses of the month, while the category  *)
(* also spent in another month and the map has other entries               *)
C20_Witness ==
    /\ ret.op = "computeRollover"
    /\ ret.cat.rollover /\ ret.cat.budget # 0
    /\ ~HasStoredRollover(rollovers, ret.month, ret.cat.id)
    /\ rollovers # EmptyRollovers
    /\ OfCategoryInMonth(expenses, ret.cat.id, ret.month) # <<>>
    /\ \E i \in 1..Len(expenses) :
          /\ expenses[i].categoryId = ret.cat.id
          /\ ~HasPrefix(expenses[i].date, ret.month)
    /\ ret.out = ret.cat.budget
                    - totalSpent(OfCategoryInMonth(expenses, ret.cat.id, ret.month))

-----------------------------------------------------------------------------
(* notifications.ts: the daily reminder. A clock reading here is in whole  *)
(* minutes since 1970-01-01T00:00Z; the calls are async, and each await is *)
(* a point where other calls run                                           *)

NOTIFICATION_ID == "daily-reminder"

(* variant: today's occurrence is kept when it is the current minute *)
nextOccurrenceFromNow(hour, minute, clock, tz) ==
    LET f == LocalFields(clock \div 60, tz)
        candidate == NewDate(f.y, f.m, f.d, hour, tz) * 60 + minute
    IN  IF candidate < clock
        THEN LET c == LocalFields(candidate \div 60, tz)
             IN  MakeDate(c.y, c.m, c.d + 1, c.h, tz) * 60 + (candidate % 60)
        ELSE candidate

(* nextOccurrence(hour, minute) at the clock reading: the candidate is     *)
(* new Date(y, m, d, hour, minute, 0, 0) of today; setDate(getDate() + 1)  *)
(* when it is not after now                                                *)
nextOccurrence(hour, minute, clock, tz) ==
    LET f == LocalFields(clock \div 60, tz)
        candidate == NewDate(f.y, f.m, f.d, hour, tz) * 60 + minute
    IN  IF candidate <= clock
        THEN LET c == LocalFields(candidate \div 60, tz)
             IN  MakeDate(c.y, c.m, c.d + 1, c.h, tz) * 60 + (candidate % 60)
        ELSE candidate

(* an async call: the function, its arguments, the await it is at, the     *)
(* value it holds across the await, and the calls that had completed when  *)
(* it started                                                              *)
AsyncCall(fn, pc, args, held, after) ==
    [fn |-> fn, pc |-> pc, args |-> args, held |-> held, after |-> after]

(* the call has returned or thrown *)
Completed(call) == call.pc \in {"done", "warned", "failed"}

(* the calls among cs that have completed *)
CompletedCalls(cs) == {j \in 1..Len(cs) : Completed(cs[j])}

(* notifee.cancelTriggerNotification(id) *)
cancelTriggerNotification(scheduled, id) == {t \in scheduled : t.id # id}

(* notifee.createTriggerNotification({id, ...}, trigger): a trigger         *)
(* notification of an id that is scheduled already is replaced              *)
createTriggerNotification(scheduled, id, trigger) ==
    {t \in scheduled : t.id # id} \cup {[trigger EXCEPT !.id = id]}

(* the TimestampTrigger scheduleDailyReminder builds *)
TimestampTrigger(timestamp, useExact) ==
    [id |-> "", type |-> "TIMESTAMP", timestamp |-> timestamp,
     repeatFrequency |-> "DAILY", alarmManager |-> useExact]

NoTrigger == TimestampTrigger(0, FALSE)

-----------------------------------------------------------------------------
(* The reminder under interleaved calls *)

MaxReminderCalls == 2

(* the reminder times entered: <<hour, minute>> *)
ReminderTimes == {<<20, 30>>, <<23, 0>>}

(* the minute of the hour `now` at which the clock is read *)
ClockMinutes == {0, 30}

(* scheduleDailyReminder(hour, minute) is called and runs to its first     *)
(* await, ensureChannel()                                                  *)
scheduleDailyReminder(hour, minute) ==
    /\ Len(calls) < MaxReminderCalls
    /\ calls' = Append(calls, AsyncCall("scheduleDailyReminder", "ensureChannel",
                                        <<hour, minute>>, NoTrigger, CompletedCalls(calls)))
    /\ ret' = Call("scheduleDailyReminder", <<hour, minute>>, NoCategory, Len(calls) + 1)
    /\ UNCHANGED <<tzOffset, now, settings, triggers, categories, expenses, rollovers,
                   disk, pending, nextId>>

(* cancelDailyReminder() is called and runs to its await,                  *)
(* notifee.cancelTriggerNotification(NOTIFICATION_ID)                      *)
cancelDailyReminder ==
    /\ Len(calls) < MaxReminderCalls
    /\ calls' = Append(calls, AsyncCall("cancelDailyReminder", "cancelTriggerNotification",
                                        <<>>, NoTrigger, CompletedCalls(calls)))
    /\ ret' = Call("cancelDailyReminder", <<>>, NoCategory, Len(calls) + 1)
    /\ UNCHANGED <<tzOffset, now, settings, triggers, categories, expenses, rollovers,
                   disk, pending, nextId>>

(* await ensureChannel() returns to call i, which goes on to               *)
(* notifee.cancelTriggerNotification(NOTIFICATION_ID)                      *)
EnsureChannel(i) ==
    /\ i \in 1..Len(calls)
    /\ calls[i].pc = "ensureChannel"
    /\ calls' = [calls EXCEPT ![i].pc = "cancelTriggerNotification"]
    /\ ret' = Call("ensureChannel", calls[i].args, NoCategory, i)
    /\ UNCHANGED <<tzOffset, now, settings, triggers, categories, expenses, rollovers,
                   disk, pending, nextId>>

(* the call schedules: it is scheduleDailyReminder, or handleSaveSettings  *)
(* with notifEnabled, which calls scheduleDailyReminder(h, min)            *)
Schedules(call) ==
    \/ call.fn = "scheduleDailyReminder"
    \/ call.fn = "handleSaveSettings" /\ call.args[3]

(* notifee.cancelTriggerNotification(NOTIFICATION_ID) of call i takes      *)
(* effect and returns: cancelDailyReminder is done, scheduleDailyReminder  *)
(* goes on to hasExactAlarmPermission()                                    *)
CancelTriggerNotification(i) ==
    /\ i \in 1..Len(calls)
    /\ calls[i].pc = "cancelTriggerNotification"
    /\ triggers' = cancelTriggerNotification(triggers, NOTIFICATION_ID)
    /\ calls' = [calls EXCEPT ![i].pc = IF Schedules(calls[i])
                                         THEN "hasExactAlarmPermission"
                                         ELSE "done"]
    /\ ret' = Call("cancelTriggerNotification", calls[i].args, NoCategory, i)
    /\ UNCHANGED <<tzOffset, now, settings, categories, expenses, rollovers,
                   disk, pending, nextId>>

(* await hasExactAlarmPermission() returns useExact to call i, which       *)
(* builds the trigger with nextOccurrence(hour, minute) at the clock       *)
(* reading and calls notifee.createTriggerNotification                     *)
HasExactAlarmPermission(i, useExact, clock) ==
    /\ i \in 1..Len(calls)
    /\ calls[i].pc = "hasExactAlarmPermission"
    /\ LET timestamp == nextOccurrence(calls[i].args[1], calls[i].args[2], clock, tzOffset)
       IN  /\ calls' = [calls EXCEPT ![i].pc = "createTriggerNotification",
                                     ![i].held = TimestampTrigger(timestamp, useExact)]
           /\ ret' = Call("nextOccurrence", calls[i].args, NoCategory,
                          [clock |-> clock, timestamp |-> timestamp])
    /\ UNCHANGED <<tzOffset, now, settings, triggers, categories, expenses, rollovers,
                   disk, pending, nextId>>

(* notifee.createTriggerNotification of call i takes effect and returns *)
CreateTriggerNotification(i) ==
    /\ i \in 1..Len(calls)
    /\ calls[i].pc = "createTriggerNotification"
    /\ triggers' = createTriggerNotification(triggers, NOTIFICATION_ID, calls[i].held)
    /\ calls' = [calls EXCEPT ![i].pc = "done"]
    /\ ret' = Call("createTriggerNotification", calls[i].args, NoCategory, i)
    /\ UNCHANGED <<tzOffset, now, settings, categories, expenses, rollovers,
                   disk, pending, nextId>>

(* the notifee call that call i awaits rejects: the call throws;           *)
(* handleSaveSettings catches what its scheduleDailyReminder throws and    *)
(* reports 'Saved with warning'                                            *)
NotifeeRejects(i) ==
    /\ i \in 1..Len(calls)
    /\ calls[i].pc \in {"ensureChannel", "cancelTriggerNotification",
                        "createTriggerNotification"}
    /\ calls' = [calls EXCEPT ![i].pc = IF calls[i].fn = "handleSaveSettings"
                                            /\ Schedules(calls[i])
                                         THEN "warned"
                                         ELSE "failed"]
    /\ ret' = Call("throw", calls[i].args, NoCategory, i)
    /\ UNCHANGED <<tzOffset, now, settings, triggers, categories, expenses, rollovers,
                   disk, pending, nextId>>

InitReminder ==
    /\ tzOffset \in TimezoneOffsets
    /\ now = StartClock
    /\ categories = SeedCategories
    /\ expenses = <<>>
    /\ rollovers = EmptyRollovers
    /\ disk = [EmptyDisk EXCEPT !.categories = SeedCategories]
    /\ pending = <<>>
    /\ settings = DefaultSettings
    /\ triggers = {}
    /\ calls = <<>>
    /\ nextId = 0
    /\ ret = NoCall

NextReminder ==
    \/ \E time \in ReminderTimes : scheduleDailyReminder(time[1], time[2])
    \/ cancelDailyReminder
    \/ \E i \in 1..Len(calls) : EnsureChannel(i)
    \/ \E i \in 1..Len(calls) : CancelTriggerNotification(i)
    \/ \E i \in 1..Len(calls), useExact \in BOOLEAN, minute \in ClockMinutes :
          HasExactAlarmPermission(i, useExact, now * 60 + minute)
    \/ \E i \in 1..Len(calls) : CreateTriggerNotification(i)
    \/ \E i \in 1..Len(calls) : NotifeeRejects(i)

SpecReminder == InitReminder /\ [][NextReminder]_vars

-----------------------------------------------------------------------------
(* The reminder: claims *)

(* the local day and the local minute of the day of a clock reading *)
LocalDay(clock, tz) == (clock + tz * 60) \div 1440

MinuteOfDay(clock, tz) == (clock + tz * 60) % 1440

(* call i returned, no call overlapped it and none followed it *)
RanAlone(i) ==
    /\ calls[i].pc = "done"
    /\ i = Len(calls)
    /\ calls[i].after = 1..(i - 1)

(* call i returned and no call was started after it *)
RanLast(i) ==
    /\ calls[i].pc = "done"
    /\ i = Len(calls)

AtMostOneReminder == Cardinality(triggers) <= 1

(* a scheduleDailyReminder(h, m) that ran alone leaves one trigger, at h:m *)
ScheduledAlone ==
    \A i \in 1..Len(calls) :
        calls[i].fn = "scheduleDailyReminder" /\ RanAlone(i) =>
            /\ Cardinality(triggers) = 1
            /\ \A t \in triggers :
                  /\ t.id = NOTIFICATION_ID
                  /\ t.repeatFrequency = "DAILY"
                  /\ MinuteOfDay(t.timestamp, tzOffset)
                        = calls[i].args[1] * 60 + calls[i].args[2]

(* a cancelDailyReminder() that no call followed leaves no trigger *)
CancelledLast ==
    \A i \in 1..Len(calls) :
        calls[i].fn = "cancelDailyReminder" /\ RanLast(i) => triggers = {}

(* C21: after any interleaving of scheduleDailyReminder(hour, minute) and  *)
(* cancelDailyReminder() calls at most one daily reminder trigger is       *)
(* scheduled; a scheduleDailyReminder(h, m) that completed with no call    *)
(* overlapping or following it leaves exactly one trigger, at h:m; a       *)
(* completed cancelDailyReminder() with no later call leaves none.         *)
C21_OneReminder ==
    /\ AtMostOneReminder
    /\ ScheduledAlone
    /\ CancelledLast

(* C23: nextOccurrence(hour, minute) is a timestamp whose local time of    *)
(* day is hour:minute, strictly later than now and at most one day later:  *)
(* today's hour:minute when that is still ahead, tomorrow's when today's   *)
(* is now or earlier.                                                      *)
C23_NextOccurrence ==
    ret.op = "nextOccurrence" =>
        LET wanted == ret.month[1] * 60 + ret.month[2]
            clock == ret.out.clock
            timestamp == ret.out.timestamp
        IN  /\ MinuteOfDay(timestamp, tzOffset) = wanted
            /\ timestamp > clock
            /\ timestamp <= clock + 1440
            /\ LocalDay(timestamp, tzOffset)
                  = IF wanted > MinuteOfDay(clock, tzOffset)
                    THEN LocalDay(clock, tzOffset)
                    ELSE LocalDay(clock, tzOffset) + 1

(* nextOccurrence is asked for the current minute and answers tomorrow *)
C23_Witness ==
    /\ ret.op = "nextOccurrence"
    /\ ret.month[1] * 60 + ret.month[2] = MinuteOfDay(ret.out.clock, tzOffset)
    /\ LocalDay(ret.out.timestamp, tzOffset) = LocalDay(ret.out.clock, tzOffset) + 1

-----------------------------------------------------------------------------
(* The collections and their saves (SpecSaves) *)

(* saves of the expense collection in flight at a time *)
MaxExpenseWrites == 2

ExpenseWritesWaiting ==
    Cardinality({i \in 1..Len(pending) : pending[i].key = "expenses"})

(* BudgetContext.updateExpense: prev.map(e => e.id === exp.id ? exp : e),  *)
(* saved                                                                   *)
updateExpense(exp) ==
    /\ ExpenseWritesWaiting < MaxExpenseWrites
    /\ expenses' = [i \in 1..Len(expenses) |->
                       IF expenses[i].id = exp.id THEN exp ELSE expenses[i]]
    /\ pending' = Append(pending, saveExpenses(expenses'))
    /\ ret' = Call("updateExpense", <<>>, NoCategory, exp.id)
    /\ UNCHANGED <<tzOffset, now, settings, triggers, calls, categories, rollovers,
                   disk, nextId>>

(* BudgetContext.deleteExpense: prev.filter(e => e.id !== id), saved *)
deleteExpense(id) ==
    LET kept(e) == e.id # id
    IN  /\ ExpenseWritesWaiting < MaxExpenseWrites
        /\ expenses' = SelectSeq(expenses, kept)
        /\ pending' = Append(pending, saveExpenses(expenses'))
        /\ ret' = Call("deleteExpense", <<>>, NoCategory, id)
        /\ UNCHANGED <<tzOffset, now, settings, triggers, calls, categories, rollovers,
                       disk, nextId>>

(* BudgetContext.updateCategory: prev.map(c => c.id === cat.id ? cat : c), *)
(* saved                                                                   *)
updateCategory(cat) ==
    /\ CategoryWritesWaiting < MaxCategoryWrites
    /\ categories' = [i \in 1..Len(categories) |->
                         IF categories[i].id = cat.id THEN cat ELSE categories[i]]
    /\ pending' = Append(pending, saveCategories(categories'))
    /\ ret' = Call("updateCategory", <<>>, cat, cat.id)
    /\ UNCHANGED <<tzOffset, now, settings, triggers, calls, expenses, rollovers,
                   disk, nextId>>

(* the amount an edit enters *)
EditedAmounts == {35}

(* the category SettingsScreen.handleSaveCategory writes back *)
EditedCategory == Category("catA", <<"F", "o", "o", "d">>, 150, FALSE, TRUE)

(* the ids of the entries of exps *)
IdsOf(exps) == {exps[i].id : i \in 1..Len(exps)}

NextSaves ==
    \/ \E amount \in ViewAmounts, note \in Notes :
          /\ ExpenseWritesWaiting < MaxExpenseWrites
          /\ addExpense(NewExpense("catA", amount, note, <<2025, 1, 15, 12>>, <<>>))
    \/ \E i \in 1..Len(expenses), amount \in EditedAmounts :
          updateExpense([expenses[i] EXCEPT !.amount = amount])
    \/ \E id \in IdsOf(expenses) : deleteExpense(id)
    \/ addCategory(AddedCategory)
    \/ updateCategory(EditedCategory)
    \/ deleteCategory("catC")
    \/ \E k \in 1..Len(pending) : CompleteSave(k)

SpecSaves == InitStore /\ [][NextSaves]_vars

(* every save that was issued has completed *)
SavesCompleted == pending = <<>>

(* C22: after any sequence of addExpense, updateExpense, deleteExpense,    *)
(* addCategory, updateCategory, deleteCategory, once every save issued has *)
(* completed (in whatever order the saves complete), the persisted         *)
(* expenses equal the expenses in memory and the persisted categories      *)
(* equal the categories in memory.                                         *)
C22_PersistedEqualsMemory ==
    SavesCompleted =>
        /\ disk.expenses = expenses
        /\ disk.categories = categories

-----------------------------------------------------------------------------
(* BudgetContext.load while the user adds an expense (SpecLoad) *)

(* the expenses persisted by an earlier run of the app *)
PersistedExpenses ==
    << Expense(Uuid(0), "catA", 60, <<"r">>, toISOString(MakeDate(2025, 1, 15, 12, 0)),
               FALSE, <<>>) >>

PersistedData ==
    [EmptyDisk EXCEPT !.categories = SeedCategories, !.expenses = PersistedExpenses]

(* load(): setIsLoading(true) and the four reads of Promise.all are issued *)
load == AsyncCall("load", "getItem", <<>>, EmptyDisk, {})

(* the reads of call i return what is persisted at that moment *)
GetItems(i) ==
    /\ i \in 1..Len(calls)
    /\ calls[i].pc = "getItem"
    /\ calls' = [calls EXCEPT ![i].pc = "Promise.all", ![i].held = disk]
    /\ ret' = Call("getItem", <<>>, NoCategory, i)
    /\ UNCHANGED <<tzOffset, now, settings, triggers, categories, expenses, rollovers,
                   disk, pending, nextId>>

(* await Promise.all returns to call i: setCategories(cats),               *)
(* setExpenses(exps), setSettings(sett), setRollovers(rolls),              *)
(* setIsLoading(false)                                                     *)
LoadResolves(i) ==
    /\ i \in 1..Len(calls)
    /\ calls[i].pc = "Promise.all"
    /\ categories' = calls[i].held.categories
    /\ expenses' = calls[i].held.expenses
    /\ settings' = calls[i].held.settings
    /\ rollovers' = calls[i].held.rollovers
    /\ calls' = [calls EXCEPT ![i].pc = "done"]
    /\ ret' = Call("load", <<>>, NoCategory, i)
    /\ UNCHANGED <<tzOffset, now, triggers, disk, pending, nextId>>

(* isLoading *)
isLoading == \E i \in 1..Len(calls) : calls[i].fn = "load" /\ ~Completed(calls[i])

(* the state at mount: useState defaults, load() called by useEffect *)
InitLoad ==
    /\ tzOffset \in TimezoneOffsets
    /\ now = StartClock
    /\ categories = <<>>
    /\ expenses = <<>>
    /\ rollovers = EmptyRollovers
    /\ disk = PersistedData
    /\ pending = <<>>
    /\ settings = DefaultSettings
    /\ triggers = {}
    /\ calls = <<load>>
    /\ nextId = 0
    /\ ret = NoCall

NextLoad ==
    \/ \E amount \in ViewAmounts \cup EditedAmounts, note \in Notes :
          /\ isLoading
          /\ addExpense(NewExpense("catA", amount, note, <<2025, 1, 15, 12>>, <<>>))
    \/ \E i \in 1..Len(calls) : GetItems(i)
    \/ \E i \in 1..Len(calls) : LoadResolves(i)
    \/ \E k \in 1..Len(pending) : CompleteSave(k)

SpecLoad == InitLoad /\ [][NextLoad]_vars

(* exps has an entry of the id *)
HasId(exps, id) == \E k \in 1..Len(exps) : exps[k].id = id

(* C27: when addExpense(e) is invoked while load() is in progress, then    *)
(* after the load and all saves have completed e is in the in-memory       *)
(* expense list and the persisted list contains e together with every      *)
(* expense that was persisted before the load started.                     *)
C27_AddDuringLoad ==
    ~isLoading /\ SavesCompleted =>
        /\ \A n \in 1..nextId :
              /\ HasId(expenses, Uuid(n))
              /\ HasId(disk.expenses, Uuid(n))
        /\ nextId > 0 =>
              \A k \in 1..Len(PersistedExpenses) :
                  HasId(disk.expenses, PersistedExpenses[k].id)

-----------------------------------------------------------------------------
(* The recurring generator over the months *)

(* the months since year 0 of the expense's local calendar date, of a key *)
LocalMonthOf(e) == LocalDate(e).y * 12 + LocalDate(e).m

KeyMonthOf(monthKey) == KeyYear(monthKey) * 12 + KeyMonth(monthKey)

(* C26: generateRecurringForMonth(E, m) returns no instance derived from a *)
(* template whose own date lies in a month after m, and none for a         *)
(* template whose own date lies in m.                                      *)
C26_SeedsLaterMonthsOnly ==
    Generated =>
        \A k \in 1..Len(ret.out), i \in 1..Len(GeneratedFrom) :
            /\ IsTemplate(GeneratedFrom[i])
            /\ ret.out[k].id = RecurringId(GeneratedFrom[i].id, ret.month)
            => LocalMonthOf(GeneratedFrom[i]) < KeyMonthOf(ret.month)

(* an instance is a template again: how many times over the generator is   *)
(* run on the instances of instances                                       *)
MaxGenerations == 2

(* the entries are instances of at most n generations *)
GenerationsBelow(exps, n) == \A i \in 1..Len(exps) : Len(exps[i].id.months) < n

(* the months the generator tops up after the entries' January 2025 *)
LaterMonths == {MonthKey(2025, 2), MonthKey(2025, 3)}

(* every operation on the expense collection: entries are added, edited,   *)
(* deleted, and the generator tops the collection up; an operation is      *)
(* invoked when the saves of the one before have completed                 *)
NextCollection ==
    \/ \E amount \in ViewAmounts, note \in Notes, day \in {<<>>, <<1>>} :
          /\ SavesCompleted
          /\ addExpense(NewExpense("catA", amount, note, <<2025, 1, 15, 12>>, day))
    \/ \E i \in 1..Len(expenses), amount \in EditedAmounts :
          /\ SavesCompleted
          /\ updateExpense([expenses[i] EXCEPT !.amount = amount])
    \/ \E id \in IdsOf(expenses) :
          /\ SavesCompleted
          /\ deleteExpense(id)
    \/ \E monthKey \in LaterMonths :
          /\ SavesCompleted
          /\ GenerationsBelow(expenses, MaxGenerations)
          /\ TopUpRecurring(monthKey)
    \/ \E k \in 1..Len(pending) : CompleteSave(k)

InitCollection ==
    /\ tzOffset \in {0, 1}
    /\ now = StartClock
    /\ categories = SeedCategories
    /\ expenses = <<>>
    /\ rollovers = EmptyRollovers
    /\ disk = [EmptyDisk EXCEPT !.categories = SeedCategories]
    /\ pending = <<>>
    /\ settings = DefaultSettings
    /\ triggers = {}
    /\ calls = <<>>
    /\ nextId = 0
    /\ ret = NoCall

SpecCollection == InitCollection /\ [][NextCollection]_vars

(* C24: expense ids stay unique in the collection: after any sequence of   *)
(* addExpense with a fresh id, updateExpense of amount or note,            *)
(* deleteExpense and generate-then-append steps no two expenses have the   *)
(* same id.                                                                *)
C24_IdsStayUnique == DistinctIds(expenses)

-----------------------------------------------------------------------------
(* Month after month (SpecMonths): the app is opened in each month and the *)
(* generator tops the collection up for that month                         *)

MaxMonthsAhead == 3

(* the clock when the template is entered: 15 January 2025, 12:00 UTC *)
TemplateClock == MakeDate(2025, 1, 15, 12, 0)

(* the month key of the local month of clock reading t *)
MonthKeyAt(t) == MonthKey(LocalFields(t, tzOffset).y, LocalFields(t, tzOffset).m)

(* the month n months after the template's *)
MonthAhead(n) == MonthKeyAt(MakeDate(2025, 1 + n, 15, 12, 0))

(* the clock reaches the 15th of the next month and the generator tops up  *)
(* the collection for it: every entry it returns is added                  *)
TopUpNextMonth ==
    LET f == LocalFields(now, tzOffset)
        opened == MakeDate(f.y, f.m + 1, 15, 12, 0)
        monthKey == MonthKeyAt(opened)
        newEntries == generateRecurringForMonth(expenses, monthKey, tzOffset)
    IN  /\ expenses # <<>>
        /\ KeyMonthOf(monthKey) <= KeyMonthOf(MonthAhead(MaxMonthsAhead))
        /\ now' = opened
        /\ expenses' = expenses \o newEntries
        /\ pending' = pending \o [k \in 1..Len(newEntries) |->
                           saveExpenses(expenses \o SubSeq(newEntries, 1, k))]
        /\ ret' = Call("generateRecurringForMonth", monthKey, NoCategory, newEntries)
        /\ UNCHANGED <<tzOffset, settings, triggers, calls, categories, rollovers,
                       disk, nextId>>

InitMonths ==
    /\ tzOffset \in TimezoneOffsets
    /\ now = TemplateClock
    /\ categories = SeedCategories
    /\ expenses = <<>>
    /\ rollovers = EmptyRollovers
    /\ disk = [EmptyDisk EXCEPT !.categories = SeedCategories]
    /\ pending = <<>>
    /\ settings = DefaultSettings
    /\ triggers = {}
    /\ calls = <<>>
    /\ nextId = 0
    /\ ret = NoCall

NextMonths ==
    \/ \E amount \in Amounts, note \in Notes, day \in {<<1>>, <<28>>} :
          /\ expenses = <<>>
          /\ addExpense(NewExpense("catA", amount, note, <<2025, 1, 15, 12>>, day))
    \/ TopUpNextMonth
    \/ \E monthKey \in {MonthAhead(n) : n \in 1..MaxMonthsAhead} : ViewMonth(monthKey)
    \/ \E k \in 1..Len(pending) : CompleteSave(k)

SpecMonths == InitMonths /\ [][NextMonths]_vars

(* the recurring entries with the template's values in the month *)
RecurringLike(tmpl, monthKey) ==
    {i \in 1..Len(expenses) :
        /\ expenses[i].isRecurring
        /\ SameValues(expenses[i], tmpl)
        /\ LocallyInMonth(expenses[i], monthKey)}

(* C25: starting from one recurring template in month M and no other       *)
(* recurring expense, after generate-then-append steps for M+1, M+2, ...,  *)
(* M+k in order each of these months contains exactly one recurring entry  *)
(* with the template's categoryId, note and amount.                        *)
C25_OnePerMonth ==
    expenses # <<>> =>
        \A n \in 1..MaxMonthsAhead :
            KeyMonthOf(MonthAhead(n)) <= KeyMonthOf(MonthKeyAt(now))
            => Cardinality(RecurringLike(expenses[1], MonthAhead(n))) = 1

-----------------------------------------------------------------------------
(* Text inputs: trim, parseInt, parseFloat. A parsed number is <<n>>, NaN  *)
(* is <<>>                                                                 *)

NaN == <<>>

isNaN(parsed) == parsed = NaN

IsDigit(c) == \E d \in 1..10 : Digits[d] = c

RECURSIVE TrimStart(_)
TrimStart(s) == IF s # <<>> /\ Head(s) = " " THEN TrimStart(Tail(s)) ELSE s

RECURSIVE TrimEnd(_)
TrimEnd(s) ==
    IF s # <<>> /\ s[Len(s)] = " " THEN TrimEnd(SubSeq(s, 1, Len(s) - 1)) ELSE s

(* s.trim() *)
trim(s) == TrimEnd(TrimStart(s))

RECURSIVE LeadingDigits(_)
(* the longest prefix of s that consists of decimal digits *)
LeadingDigits(s) ==
    IF s # <<>> /\ IsDigit(Head(s)) THEN <<Head(s)>> \o LeadingDigits(Tail(s)) ELSE <<>>

(* parseInt(s, 10): leading white space is skipped, a sign is read, the    *)
(* digits that follow are the value and what comes after them is ignored;  *)
(* NaN when no digit follows                                               *)
parseInt(s) ==
    LET t == TrimStart(s)
        negative == t # <<>> /\ Head(t) = "-"
        unsigned == IF t # <<>> /\ Head(t) \in {"-", "+"} THEN Tail(t) ELSE t
        digits == LeadingDigits(unsigned)
    IN  IF digits = <<>> THEN NaN
        ELSE <<IF negative THEN 0 - ToNumber(digits) ELSE ToNumber(digits)>>

(* parseFloat(s) of a string without ".", exponent or "Infinity", where it *)
(* reads what parseInt(s, 10) reads; the decimal part of a number is not   *)
(* modelled                                                                *)
parseFloat(s) == parseInt(s)

-----------------------------------------------------------------------------
(* SettingsScreen.handleSaveSettings (SpecSettings) *)

MaxSettingsCalls == 2

(* AppSettings *)
AppSettings(currency, incomeAmount, notificationsEnabled, reminderHour, reminderMinute) ==
    [currency |-> currency, incomeAmount |-> incomeAmount,
     notificationsEnabled |-> notificationsEnabled,
     reminderHour |-> reminderHour, reminderMinute |-> reminderMinute]

(* storage.saveSettings(s) *)
saveSettings(s) == [key |-> "settings", value |-> s]

(* the write whose promise the caller awaits *)
Awaited(write, caller) == [key |-> write.key, value |-> write.value, caller |-> caller]

(* variant: hour 24 and minute 60 pass *)
RejectsSettingsUpTo(income, currency, reminderHour, reminderMinute) ==
    LET parsedIncome == parseFloat(income)
        h == parseInt(reminderHour)
        min == parseInt(reminderMinute)
    IN  \/ isNaN(parsedIncome) \/ parsedIncome[1] < 0
        \/ trim(currency) = <<>>
        \/ isNaN(h) \/ h[1] < 0 \/ h[1] > 24 \/ isNaN(min) \/ min[1] < 0 \/ min[1] > 60

(* the three early returns of handleSaveSettings *)
RejectsSettings(income, currency, reminderHour, reminderMinute) ==
    LET parsedIncome == parseFloat(income)
        h == parseInt(reminderHour)
        min == parseInt(reminderMinute)
    IN  \/ isNaN(parsedIncome) \/ parsedIncome[1] < 0
        \/ trim(currency) = <<>>
        \/ isNaN(h) \/ h[1] < 0 \/ h[1] > 23 \/ isNaN(min) \/ min[1] < 0 \/ min[1] > 59

(* handleSaveSettings with the form's income, currency, reminderHour,      *)
(* reminderMinute and notifEnabled: an alert and nothing else when the     *)
(* input is rejected; else updateSettings(newSettings), that is            *)
(* setSettings and storage.saveSettings, which it awaits                   *)
handleSaveSettings(income, currency, reminderHour, reminderMinute, notifEnabled) ==
    IF RejectsSettings(income, currency, reminderHour, reminderMinute)
    THEN /\ ret' = Call("handleSaveSettings",
                        <<income, currency, reminderHour, reminderMinute>>,
                        NoCategory, "rejected")
         /\ UNCHANGED <<tzOffset, now, settings, triggers, calls, categories, expenses,
                        rollovers, disk, pending, nextId>>
    ELSE LET h == parseInt(reminderHour)[1]
             min == parseInt(reminderMinute)[1]
             newSettings == AppSettings(trim(currency), parseFloat(income)[1],
                                        notifEnabled, h, min)
         IN  /\ Len(calls) < MaxSettingsCalls
             /\ settings' = newSettings
             /\ pending' = Append(pending, Awaited(saveSettings(newSettings), Len(calls) + 1))
             /\ calls' = Append(calls, AsyncCall("handleSaveSettings", "updateSettings",
                                                 <<h, min, notifEnabled>>, NoTrigger,
                                                 CompletedCalls(calls)))
             /\ ret' = Call("handleSaveSettings",
                            <<income, currency, reminderHour, reminderMinute>>,
                            NoCategory, "saving")
             /\ UNCHANGED <<tzOffset, now, triggers, categories, expenses, rollovers,
                            disk, nextId>>

(* await updateSettings(newSettings) returns to call i when its write has  *)
(* completed: scheduleDailyReminder(h, min) is called when notifEnabled,   *)
(* cancelDailyReminder() when not                                          *)
UpdateSettingsReturns(i) ==
    /\ i \in 1..Len(calls)
    /\ calls[i].pc = "updateSettings"
    /\ \A k \in 1..Len(pending) : pending[k].caller # i
    /\ calls' = [calls EXCEPT ![i].pc = IF calls[i].args[3]
                                         THEN "ensureChannel"
                                         ELSE "cancelTriggerNotification"]
    /\ ret' = Call("updateSettings", calls[i].args, NoCategory, i)
    /\ UNCHANGED <<tzOffset, now, settings, triggers, categories, expenses, rollovers,
                   disk, pending, nextId>>

(* what the form holds when Save is pressed: income, currency,             *)
(* reminderHour, reminderMinute, notifEnabled; two forms that pass (one    *)
(* with text after the hour) and one for each way of being rejected        *)
SettingsForms ==
    { <<<<"5", "0", "0">>, <<"$", " ">>, <<"7", "x">>, <<"3", "0">>, TRUE>>,
      <<<<"5", "0", "0">>, <<"$", " ">>, <<"8">>, <<"3", "0">>, FALSE>>,
      <<<<"-", "5">>, <<"$", " ">>, <<"8">>, <<"3", "0">>, TRUE>>,
      <<<<"x">>, <<"$", " ">>, <<"8">>, <<"3", "0">>, TRUE>>,
      <<<<"5", "0", "0">>, <<" ">>, <<"8">>, <<"3", "0">>, TRUE>>,
      <<<<"5", "0", "0">>, <<"$", " ">>, <<"2", "4">>, <<"3", "0">>, TRUE>>,
      <<<<"5", "0", "0">>, <<"$", " ">>, <<"8">>, <<"6", "0">>, FALSE>> }

InitSettings ==
    /\ tzOffset = 0
    /\ now = StartClock
    /\ categories = SeedCategories
    /\ expenses = <<>>
    /\ rollovers = EmptyRollovers
    /\ disk = [EmptyDisk EXCEPT !.categories = SeedCategories]
    /\ pending = <<>>
    /\ settings = DefaultSettings
    /\ triggers = {}
    /\ calls = <<>>
    /\ nextId = 0
    /\ ret = NoCall

NextSettings ==
    \/ \E form \in SettingsForms :
          handleSaveSettings(form[1], form[2], form[3], form[4], form[5])
    \/ \E k \in 1..Len(pending) : CompleteSave(k)
    \/ \E i \in 1..Len(calls) : UpdateSettingsReturns(i)
    \/ \E i \in 1..Len(calls) : EnsureChannel(i)
    \/ \E i \in 1..Len(calls) : CancelTriggerNotification(i)
    \/ \E i \in 1..Len(calls) : HasExactAlarmPermission(i, TRUE, now * 60)
    \/ \E i \in 1..Len(calls) : CreateTriggerNotification(i)
    \/ \E i \in 1..Len(calls) : NotifeeRejects(i)

SpecSettings == InitSettings /\ [][NextSettings]_vars

(* no call is in flight and no write is waiting *)
Quiescent ==
    /\ SavesCompleted
    /\ \A i \in 1..Len(calls) : Completed(calls[i])

(* C28: after every completed handleSaveSettings a daily reminder is       *)
(* scheduled if and only if the persisted settings have                    *)
(* notificationsEnabled = true, and then at the persisted                  *)
(* reminderHour:reminderMinute; also when scheduling fails and when two    *)
(* saves overlap.                                                          *)
C28_ReminderFollowsSettings ==
    calls # <<>> /\ Quiescent =>
        /\ triggers # {} <=> disk.settings.notificationsEnabled
        /\ \A t \in triggers :
              MinuteOfDay(t.timestamp, tzOffset)
                 = disk.settings.reminderHour * 60 + disk.settings.reminderMinute

(* the income is not a number or negative, the currency is blank, the hour *)
(* is not in 0..23 or the minute is not in 0..59                           *)
InvalidSettingsInput(form) ==
    \/ isNaN(parseFloat(form[1]))
    \/ parseFloat(form[1])[1] < 0
    \/ \A k \in 1..Len(form[2]) : form[2][k] = " "
    \/ isNaN(parseInt(form[3]))
    \/ parseInt(form[3])[1] \notin 0..23
    \/ isNaN(parseInt(form[4]))
    \/ parseInt(form[4])[1] \notin 0..59

ValidSettings(s) ==
    /\ s.incomeAmount >= 0
    /\ s.currency # <<>>
    /\ s.reminderHour \in 0..23
    /\ s.reminderMinute \in 0..59

-----------------------------------------------------------------------------
(* AddExpenseScreen.handleSubmit, HistoryScreen.saveEdit and handleDelete  *)
(* (SpecEntry)                                                             *)

(* selectedCategory when no category is chosen *)
null == ""

(* variant: day 29 to 31 pass and so does amount 0 *)
RejectsSubmissionUpTo(amount, selectedCategory, isRecurring, recurringDay) ==
    LET parsed == parseFloat(amount)
        day == parseInt(recurringDay)
    IN  \/ amount = <<>> \/ isNaN(parsed) \/ parsed[1] < 0
        \/ selectedCategory = null
        \/ isRecurring /\ (isNaN(day) \/ day[1] < 1 \/ day[1] > 31)

(* the three early returns of handleSubmit *)
RejectsSubmission(amount, selectedCategory, isRecurring, recurringDay) ==
    LET parsed == parseFloat(amount)
        day == parseInt(recurringDay)
    IN  \/ amount = <<>> \/ isNaN(parsed) \/ parsed[1] <= 0
        \/ selectedCategory = null
        \/ isRecurring /\ (isNaN(day) \/ day[1] < 1 \/ day[1] > 28)

(* handleSubmit with the form's amount, selectedCategory, isRecurring,     *)
(* recurringDay, note and date: an alert and nothing else when the input   *)
(* is rejected; else addExpense of the entry with a fresh id               *)
handleSubmit(amount, selectedCategory, isRecurring, recurringDay, note, local) ==
    LET form == <<>>
    IN  IF RejectsSubmission(amount, selectedCategory, isRecurring, recurringDay)
        THEN /\ ret' = Call("handleSubmit", form, NoCategory, "rejected")
             /\ UNCHANGED <<tzOffset, now, settings, triggers, calls, categories,
                            expenses, rollovers, disk, pending, nextId>>
        ELSE LET expense == NewExpense(selectedCategory, parseFloat(amount)[1], trim(note),
                                       local,
                                       IF isRecurring THEN parseInt(recurringDay) ELSE <<>>)
             IN  /\ nextId < MaxExpenses
                 /\ expenses' = Append(expenses, expense)
                 /\ pending' = Append(pending, saveExpenses(expenses'))
                 /\ nextId' = Max(nextId, expense.id.base)
                 /\ ret' = Call("handleSubmit", form, NoCategory, "added")
                 /\ UNCHANGED <<tzOffset, now, settings, triggers, calls, categories,
                                rollovers, disk>>

(* the early return of saveEdit on the amount *)
RejectsEdit(editAmount) ==
    LET parsed == parseFloat(editAmount)
    IN  isNaN(parsed) \/ parsed[1] <= 0

(* saveEdit with editingExpense, the entry the modal was opened for, and   *)
(* the modal's editAmount and editNote: an alert and nothing else when the *)
(* amount is rejected; else updateExpense({...editingExpense, amount,      *)
(* note})                                                                  *)
saveEdit(editingExpense, editAmount, editNote) ==
    IF RejectsEdit(editAmount)
    THEN /\ ret' = Call("saveEdit", <<>>, NoCategory, "rejected")
         /\ UNCHANGED <<tzOffset, now, settings, triggers, calls, categories,
                        expenses, rollovers, disk, pending, nextId>>
    ELSE LET exp == [editingExpense EXCEPT !.amount = parseFloat(editAmount)[1],
                                           !.note = trim(editNote)]
         IN  /\ expenses' = [i \in 1..Len(expenses) |->
                                IF expenses[i].id = exp.id THEN exp ELSE expenses[i]]
             /\ pending' = Append(pending, saveExpenses(expenses'))
             /\ ret' = Call("saveEdit", <<>>, NoCategory, "saved")
             /\ UNCHANGED <<tzOffset, now, settings, triggers, calls, categories,
                            rollovers, disk, nextId>>

(* handleDelete, confirmed: deleteExpense(id) *)
handleDelete(id) == deleteExpense(id)

(* what the add form holds when it is submitted: amount, selectedCategory, *)
(* isRecurring, recurringDay; two forms that pass and one for each way of  *)
(* being rejected                                                          *)
SubmitForms ==
    { <<<<"2", "0">>, "catA", FALSE, <<"1">>>>,
      <<<<"2", "0">>, "catA", TRUE, <<"2", "8">>>>,
      <<<<"0">>, "catA", FALSE, <<"1">>>>,
      <<<<>>, "catA", FALSE, <<"1">>>>,
      <<<<"-", "5">>, "catA", FALSE, <<"1">>>>,
      <<<<"2", "0">>, null, FALSE, <<"1">>>>,
      <<<<"2", "0">>, "catA", TRUE, <<"2", "9">>>>,
      <<<<"2", "0">>, "catA", TRUE, <<"0">>>>,
      <<<<"2", "0">>, "catA", TRUE, <<>>>> }

(* the amounts typed into the edit modal *)
EditTexts == {<<"3", "5">>, <<"0">>, <<"x">>}

(* a form is handled when the saves of the one before have completed *)
NextEntry ==
    \/ \E form \in SubmitForms, note \in {<<"r", " ">>} :
          /\ SavesCompleted
          /\ handleSubmit(form[1], form[2], form[3], form[4], note, <<2025, 1, 15, 12>>)
    \/ \E i \in 1..Len(expenses), editAmount \in EditTexts, editNote \in {<<"e">>} :
          /\ SavesCompleted
          /\ saveEdit(expenses[i], editAmount, editNote)
    \/ \E id \in IdsOf(expenses) :
          /\ SavesCompleted
          /\ handleDelete(id)
    \/ \E k \in 1..Len(pending) : CompleteSave(k)

SpecEntry == InitStore /\ [][NextEntry]_vars

(* the amount is positive, a recurring entry has a day in 1..28 and an     *)
(* entry that is not recurring has none                                    *)
WellFormedExpenses(exps) ==
    \A i \in 1..Len(exps) :
        /\ exps[i].amount > 0
        /\ exps[i].isRecurring =>
              /\ exps[i].recurringDayOfMonth # <<>>
              /\ exps[i].recurringDayOfMonth[1] \in 1..28
        /\ ~exps[i].isRecurring => exps[i].recurringDayOfMonth = <<>>

=============================================================================
